---------------------------- MODULE Spec2Model ----------------------------
(***************************************************************************)
(* A model of the XLSX conversion pipeline of aerissecure/convert:         *)
(*   ParseWorkbookModel  (src/xlsx/parse.go, second copy, lines 252-461)   *)
(*   RenderWorkbookHTML  (src/unnamed/part_001, lines 45-332)              *)
(*   styleToCSSDiff      (src/unnamed/part_001, lines 334-395)             *)
(*   ThemeColorToRGB     (src/unnamed/part_002, lines 391-441)             *)
(*                                                                         *)
(* Conventions.  A Go string is a sequence of one-character strings, so    *)
(* that length, prefix and character-class tests are computed.  A pointer  *)
(* that may be nil is a sequence of length 0 (nil) or 1 (the pointee).     *)
(* float64 pixel values are integers in thousandths of a pixel, point      *)
(* sizes are integers.  A panic of the Go runtime is the state pc =        *)
(* "panic".                                                                *)
(***************************************************************************)
EXTENDS Integers, Sequences, FiniteSets, TLC

VARIABLES
    wb,          \* the workbook handed to ParseWorkbookModel (input, never written)
    pc,          \* position of the conversion call
    si,          \* index of the sheet being parsed (range wb.Sheets())
    ri,          \* index of the next source row of that sheet (range sheet.Rows())
    maxCols,     \* maxCols of the sheet being parsed
    mergeMaster, \* mergeMaster map of the sheet being parsed: set of [pos, rowSpan, colSpan]
    skipCells,   \* skipCells map of the sheet being parsed: set of <<row, col>>
    rs,          \* the RenderSheet being built
    model,       \* WorkbookModel.Sheets built so far
    renders,     \* results of the calls of RenderWorkbookHTML(model), oldest first
    doc,         \* the document handed to the DOCX entry points (input, never written)
    out,         \* results of the calls of XlsxToHTML and of the DOCX entry points
    DebugHTML,   \* the package variable DebugHTML of package xlsx
    calls        \* the calls of RenderWorkbookHTML that run concurrently, by goroutine

vars == <<wb, pc, si, ri, maxCols, mergeMaster, skipCells, rs, model, renders, doc, out,
          DebugHTML, calls>>

-----------------------------------------------------------------------------
(* Bounds of the model.                                                    *)

MaxRowNum == 3
MaxSrcRows == 2
MaxStyledCells == 4
MaxRenders == 2

-----------------------------------------------------------------------------
(* Generic helpers.                                                        *)

Nil == <<>>
Some(x) == <<x>>
IsNil(p) == p = <<>>
Deref(p) == p[1]

Range(s) == {s[i] : i \in DOMAIN s}

Max(a, b) == IF a > b THEN a ELSE b

RECURSIVE Repeat(_, _)
Repeat(x, n) == IF n <= 0 THEN <<>> ELSE <<x>> \o Repeat(x, n - 1)

(* The injective sequences of length n over the set S. *)
RECURSIVE Arrangements(_, _)
Arrangements(S, n) ==
    IF n = 0 THEN {<<>>}
    ELSE UNION {{<<x>> \o t : t \in Arrangements(S \ {x}, n - 1)} : x \in S}

(* The sequences of length at most n over the set S. *)
RECURSIVE SeqsUpTo(_, _)
SeqsUpTo(S, n) ==
    IF n = 0 THEN {<<>>}
    ELSE SeqsUpTo(S, n - 1)
         \cup {Append(t, x) : t \in {u \in SeqsUpTo(S, n - 1) : Len(u) = n - 1}, x \in S}

-----------------------------------------------------------------------------
(* Strings of the documents used as inputs.                                *)

EmptyStr == <<>>
Calibri == <<"C", "a", "l", "i", "b", "r", "i">>
Arial == <<"A", "r", "i", "a", "l">>
ARGB_Black == <<"F", "F", "0", "0", "0", "0", "0", "0">>
ARGB_Yellow == <<"F", "F", "F", "F", "F", "F", "0", "0">>
RGB_Red == <<"F", "F", "0", "0", "0", "0">>
ARGB_Green == <<"F", "F", "0", "0", "8", "0", "0", "0">>
RGB_Accent1 == <<"4", "4", "7", "2", "C", "4">>
RGB_Accent2 == <<"E", "D", "7", "D", "3", "1">>
RGB_Window == <<"F", "F", "F", "F", "F", "F">>
RGB_WindowText == <<"0", "0", "0", "0", "0", "0">>
RGB_Dk2 == <<"4", "4", "5", "4", "6", "A">>
NamedRed == <<"r", "e", "d">>
Sheet1 == <<"S", "h", "e", "e", "t", "1">>
RGB_112233 == <<"1", "1", "2", "2", "3", "3">>
ARGB_FF112233 == <<"F", "F", "1", "1", "2", "2", "3", "3">>
Hash_112233 == <<"#", "1", "1", "2", "2", "3", "3">>
RGB_Header == <<"D", "9", "D", "9", "D", "9">>
RGB_Stripe1 == <<"F", "2", "F", "2", "F", "2">>
RGB_Stripe2 == <<"E", "0", "E", "0", "E", "0">>
CssBreakout == <<"r", "e", "d", ";", "}", "<">>
FontBreakout == <<"A", "'", ";", "}", "<", "b">>
MarkupText == <<"<", "b", ">", "&", "\"", "'", "\n", "x">>

HexDigits ==
    {"0", "1", "2", "3", "4", "5", "6", "7", "8", "9",
     "a", "b", "c", "d", "e", "f", "A", "B", "C", "D", "E", "F"}

FontFamilySafeChars ==
    HexDigits \cup
    {"g", "h", "i", "j", "k", "l", "m", "n", "o", "p", "q", "r", "s", "t",
     "u", "v", "w", "x", "y", "z",
     "G", "H", "I", "J", "K", "L", "M", "N", "O", "P", "Q", "R", "S", "T",
     "U", "V", "W", "X", "Y", "Z", " ", ",", "_", "-"}

-----------------------------------------------------------------------------
(* The theme palette (dml.Theme.ThemeElements.ClrScheme) and the shared    *)
(* style tables (sml.StyleSheet) of the input workbooks.                   *)

SrgbClr(v) == Some([SrgbClr |-> Some([ValAttr |-> v]), SysClr |-> Nil])
SysClr(last) == Some([SrgbClr |-> Nil, SysClr |-> Some([LastClrAttr |-> last])])

OfficeScheme ==
    [Dk1 |-> SysClr(Some(RGB_WindowText)), Lt1 |-> SysClr(Some(RGB_Window)),
     Dk2 |-> SrgbClr(RGB_Dk2), Lt2 |-> Nil,
     Accent1 |-> SrgbClr(RGB_Accent1), Accent2 |-> SrgbClr(RGB_Accent2),
     Accent3 |-> SrgbClr(EmptyStr), Accent4 |-> SysClr(Nil),
     Accent5 |-> Nil, Accent6 |-> Nil, Hlink |-> SrgbClr(RGB_Red), FolHlink |-> Nil]

SwappedScheme ==
    [OfficeScheme EXCEPT !.Dk1 = SrgbClr(RGB_Dk2), !.Accent1 = SrgbClr(RGB_Accent2),
                         !.Accent2 = Nil, !.FolHlink = SysClr(Some(RGB_Window))]

ThemeChoices == {<<>>, <<Nil>>, <<Some(OfficeScheme)>>, <<Some(SwappedScheme)>>}

RgbColor(hex) == Some([RgbAttr |-> Some(hex), ThemeAttr |-> Nil, TintAttr |-> 0])
ThemeColor(idx, tint) == Some([RgbAttr |-> Nil, ThemeAttr |-> Some(idx), TintAttr |-> tint])

Font(name, sz, color) == [Name |-> name, Sz |-> sz, Color |-> color]
Fill(fg) == [PatternFill |-> Some([FgColor |-> fg])]
Border(color) == [Left |-> Some([Color |-> color])]
Alignment(h, v, wrap, indent) ==
    Some([HorizontalAttr |-> h, VerticalAttr |-> v, WrapTextAttr |-> wrap, IndentAttr |-> indent])
Xf(font, fill, border, al) ==
    [FontIdAttr |-> font, FillIdAttr |-> fill, BorderIdAttr |-> border, Alignment |-> al]

(* Tints are in percent: TintAttr 50 is tint="0.5". *)
StyleSheetA ==
    [Fonts |-> << Font(<<[ValAttr |-> Calibri]>>, <<[ValAttr |-> 11]>>, <<[RgbAttr |-> Some(ARGB_Black)]>>),
                  Font(<<[ValAttr |-> Arial]>>, <<[ValAttr |-> 14]>>, <<>>),
                  Font(<<>>, <<>>, <<[RgbAttr |-> Some(NamedRed)]>>) >>,
     Fills |-> << [PatternFill |-> Nil],
                  Fill(RgbColor(ARGB_Yellow)),
                  Fill(ThemeColor(4, 0)),
                  Fill(ThemeColor(5, 50)),
                  Fill(ThemeColor(0, 0)),
                  Fill(ThemeColor(12, 0)),
                  Fill(ThemeColor(6, 0)) >>,
     Borders |-> << [Left |-> Nil], Border(Some([RgbAttr |-> Some(ARGB_Green)])) >>,
     CellXfs |-> << Xf(Some(0), Some(0), Some(0), Nil),
                    Xf(Some(1), Some(1), Some(1), Alignment("center", "center", Some(TRUE), Some(1))),
                    Xf(Some(0), Some(2), Some(0), Alignment("right", "top", Nil, Some(2))),
                    Xf(Some(1), Some(3), Nil, Alignment("general", "", Some(FALSE), Nil)),
                    Xf(Some(2), Some(4), Some(1), Alignment("right", "bottom", Some(TRUE), Some(2))),
                    Xf(Nil, Some(5), Some(0), Alignment("", "", Nil, Some(1))),
                    Xf(Some(0), Some(6), Some(0), Nil) >>]

-----------------------------------------------------------------------------
(* Color resolution.                                                       *)

normalizeColor(hex) ==
    LET h == IF Len(hex) > 0 /\ hex[1] = "#" THEN Tail(hex) ELSE hex
    IN  IF Len(h) = 8 THEN SubSeq(h, 3, 8) ELSE h

(* A slot table that lists the light color of each pair before the dark   *)
(* one.                                                                    *)
SchemeSlot_LightFirst(clrScheme, themeIdx) ==
    CASE themeIdx = 0 -> Some(clrScheme.Lt1)
      [] themeIdx = 1 -> Some(clrScheme.Dk1)
      [] themeIdx = 2 -> Some(clrScheme.Lt2)
      [] themeIdx = 3 -> Some(clrScheme.Dk2)
      [] themeIdx = 4 -> Some(clrScheme.Accent1)
      [] themeIdx = 5 -> Some(clrScheme.Accent2)
      [] themeIdx = 6 -> Some(clrScheme.Accent3)
      [] themeIdx = 7 -> Some(clrScheme.Accent4)
      [] themeIdx = 8 -> Some(clrScheme.Accent5)
      [] themeIdx = 9 -> Some(clrScheme.Accent6)
      [] themeIdx = 10 -> Some(clrScheme.Hlink)
      [] themeIdx = 11 -> Some(clrScheme.FolHlink)
      [] OTHER -> Nil

(* A slot table that gives the first slot for an index past the last one. *)
SchemeSlot_Clamped(clrScheme, themeIdx) ==
    CASE themeIdx = 0 -> Some(clrScheme.Dk1)
      [] themeIdx = 1 -> Some(clrScheme.Lt1)
      [] themeIdx = 2 -> Some(clrScheme.Dk2)
      [] themeIdx = 3 -> Some(clrScheme.Lt2)
      [] themeIdx = 4 -> Some(clrScheme.Accent1)
      [] themeIdx = 5 -> Some(clrScheme.Accent2)
      [] themeIdx = 6 -> Some(clrScheme.Accent3)
      [] themeIdx = 7 -> Some(clrScheme.Accent4)
      [] themeIdx = 8 -> Some(clrScheme.Accent5)
      [] themeIdx = 9 -> Some(clrScheme.Accent6)
      [] themeIdx = 10 -> Some(clrScheme.Hlink)
      [] themeIdx = 11 -> Some(clrScheme.FolHlink)
      [] OTHER -> Some(clrScheme.Dk1)

SchemeSlot(clrScheme, themeIdx) ==
    CASE themeIdx = 0 -> Some(clrScheme.Dk1)
      [] themeIdx = 1 -> Some(clrScheme.Lt1)
      [] themeIdx = 2 -> Some(clrScheme.Dk2)
      [] themeIdx = 3 -> Some(clrScheme.Lt2)
      [] themeIdx = 4 -> Some(clrScheme.Accent1)
      [] themeIdx = 5 -> Some(clrScheme.Accent2)
      [] themeIdx = 6 -> Some(clrScheme.Accent3)
      [] themeIdx = 7 -> Some(clrScheme.Accent4)
      [] themeIdx = 8 -> Some(clrScheme.Accent5)
      [] themeIdx = 9 -> Some(clrScheme.Accent6)
      [] themeIdx = 10 -> Some(clrScheme.Hlink)
      [] themeIdx = 11 -> Some(clrScheme.FolHlink)
      [] OTHER -> Nil

Unresolved == [hex |-> EmptyStr, ok |-> FALSE]

(* ThemeColorToRGB(wb, themeIdx): (hex, ok).  The tint is no parameter. *)
ThemeColorToRGB(w, themeIdx) ==
    LET themes == w.Themes IN
    IF Len(themes) = 0 \/ IsNil(themes[1]) THEN Unresolved
    ELSE LET slot == SchemeSlot(Deref(themes[1]), themeIdx) IN
         IF IsNil(slot) THEN Unresolved
         ELSE LET clr == Deref(slot) IN
              IF IsNil(clr) THEN Unresolved
              ELSE LET c == Deref(clr) IN
                   IF ~IsNil(c.SrgbClr) /\ Deref(c.SrgbClr).ValAttr # EmptyStr
                   THEN [hex |-> Deref(c.SrgbClr).ValAttr, ok |-> TRUE]
                   ELSE IF ~IsNil(c.SysClr) /\ ~IsNil(Deref(c.SysClr).LastClrAttr)
                        THEN [hex |-> Deref(Deref(c.SysClr).LastClrAttr), ok |-> TRUE]
                        ELSE Unresolved

-----------------------------------------------------------------------------
(* Style lookup by style ID.                                               *)

GetFontProps(ss, styleID) ==
    IF styleID < 0 \/ styleID >= Len(ss.CellXfs) THEN Nil
    ELSE LET xf == ss.CellXfs[styleID + 1] IN
         IF IsNil(xf.FontIdAttr) THEN Nil
         ELSE LET fontIdx == Deref(xf.FontIdAttr) IN
              IF fontIdx < 0 \/ fontIdx >= Len(ss.Fonts) THEN Nil
              ELSE Some(ss.Fonts[fontIdx + 1])

GetFillProps(ss, styleID) ==
    IF styleID < 0 \/ styleID >= Len(ss.CellXfs) THEN Nil
    ELSE LET xf == ss.CellXfs[styleID + 1] IN
         IF IsNil(xf.FillIdAttr) THEN Nil
         ELSE LET fillIdx == Deref(xf.FillIdAttr) IN
              IF fillIdx < 0 \/ fillIdx >= Len(ss.Fills) THEN Nil
              ELSE Some(ss.Fills[fillIdx + 1])

GetBorderProps(ss, styleID) ==
    IF styleID < 0 \/ styleID >= Len(ss.CellXfs) THEN Nil
    ELSE LET xf == ss.CellXfs[styleID + 1] IN
         IF IsNil(xf.BorderIdAttr) THEN Nil
         ELSE LET borderIdx == Deref(xf.BorderIdAttr) IN
              IF borderIdx < 0 \/ borderIdx >= Len(ss.Borders) THEN Nil
              ELSE Some(ss.Borders[borderIdx + 1])

ZeroStyle ==
    [FontFamily |-> EmptyStr, FontSizePt |-> 0, FontColor |-> EmptyStr,
     BackgroundColor |-> EmptyStr, BorderColor |-> EmptyStr,
     HorizontalAlign |-> "", VerticalAlign |-> "", WrapText |-> FALSE, IndentPx |-> 0]

IndentPxPerLevel == 8

(* A fill branch that resolves theme colors only and drops a direct color. *)
ResolveBackground_ThemeOnly(w, fill) ==
    IF IsNil(fill) \/ IsNil(Deref(fill).PatternFill)
       \/ IsNil(Deref(Deref(fill).PatternFill).FgColor)
    THEN EmptyStr
    ELSE LET fg == Deref(Deref(Deref(fill).PatternFill).FgColor) IN
         IF ~IsNil(fg.RgbAttr) THEN EmptyStr
         ELSE IF ~IsNil(fg.ThemeAttr)
              THEN LET t == ThemeColorToRGB(w, Deref(fg.ThemeAttr)) IN
                   IF t.ok THEN t.hex ELSE EmptyStr
              ELSE EmptyStr

(* The fill branch of the cell style: lines 361-370. *)
ResolveBackground(w, fill) ==
    IF IsNil(fill) \/ IsNil(Deref(fill).PatternFill)
       \/ IsNil(Deref(Deref(fill).PatternFill).FgColor)
    THEN EmptyStr
    ELSE LET fg == Deref(Deref(Deref(fill).PatternFill).FgColor) IN
         IF ~IsNil(fg.RgbAttr) THEN normalizeColor(Deref(fg.RgbAttr))
         ELSE IF ~IsNil(fg.ThemeAttr)
              THEN LET t == ThemeColorToRGB(w, Deref(fg.ThemeAttr)) IN
                   IF t.ok THEN t.hex ELSE EmptyStr
              ELSE EmptyStr

(* The alignment branch of the cell style: lines 374-390. *)
ApplyAlignment(st, xf) ==
    IF IsNil(xf.Alignment) THEN st
    ELSE LET al == Deref(xf.Alignment) IN
         [st EXCEPT
            !.HorizontalAlign = al.HorizontalAttr,
            !.VerticalAlign = CASE al.VerticalAttr = "top" -> "top"
                                [] al.VerticalAttr = "center" -> "middle"
                                [] OTHER -> "bottom",
            !.WrapText = IF ~IsNil(al.WrapTextAttr) THEN Deref(al.WrapTextAttr) ELSE FALSE,
            !.IndentPx = IF ~IsNil(al.IndentAttr)
                         THEN Deref(al.IndentAttr) * IndentPxPerLevel ELSE 0]

(* The style block of one cell, lines 344-391: [panic, st].  Indexing     *)
(* CellXfs.Xf[styleID] at line 351 is unchecked.                          *)
ResolveCellStyle(w, sAttr) ==
    IF IsNil(sAttr) THEN [panic |-> FALSE, st |-> ZeroStyle]
    ELSE LET styleID == Deref(sAttr)
             ss == w.StyleSheet
             font == GetFontProps(ss, styleID)
             fill == GetFillProps(ss, styleID)
             border == GetBorderProps(ss, styleID)
         IN  IF styleID < 0 \/ styleID >= Len(ss.CellXfs)
             THEN [panic |-> TRUE, st |-> ZeroStyle]
             ELSE LET xf == ss.CellXfs[styleID + 1]
                      s1 == [ZeroStyle EXCEPT
                               !.FontFamily =
                                   IF ~IsNil(font) /\ Len(Deref(font).Name) > 0
                                   THEN Deref(font).Name[1].ValAttr ELSE EmptyStr,
                               !.FontSizePt =
                                   IF ~IsNil(font) /\ Len(Deref(font).Sz) > 0
                                   THEN Deref(font).Sz[1].ValAttr ELSE 0,
                               !.FontColor =
                                   IF ~IsNil(font) /\ Len(Deref(font).Color) > 0
                                      /\ ~IsNil(Deref(font).Color[1].RgbAttr)
                                   THEN normalizeColor(Deref(Deref(font).Color[1].RgbAttr))
                                   ELSE EmptyStr,
                               !.BackgroundColor = ResolveBackground(w, fill),
                               !.BorderColor =
                                   IF ~IsNil(border) /\ ~IsNil(Deref(border).Left)
                                      /\ ~IsNil(Deref(Deref(border).Left).Color)
                                      /\ ~IsNil(Deref(Deref(Deref(border).Left).Color).RgbAttr)
                                   THEN normalizeColor(
                                            Deref(Deref(Deref(Deref(border).Left).Color).RgbAttr))
                                   ELSE EmptyStr]
                  IN  [panic |-> FALSE, st |-> ApplyAlignment(s1, xf)]

-----------------------------------------------------------------------------
(* ParseWorkbookModel: geometry and the IR.                                *)

Letters ==
    <<"A", "B", "C", "D", "E", "F", "G", "H", "I", "J", "K", "L", "M",
      "N", "O", "P", "Q", "R", "S", "T", "U", "V", "W", "X", "Y", "Z">>

LetterValue(ch) == CHOOSE i \in DOMAIN Letters : Letters[i] = ch

(* reference.ColumnToIndex: the zero-based index of a column name. *)
RECURSIVE ColumnAcc(_, _)
ColumnAcc(colName, res) ==
    IF colName = <<>> THEN res
    ELSE ColumnAcc(Tail(colName), res * 26 + LetterValue(Head(colName)))

ColumnToIndex(colName) == ColumnAcc(colName, 0) - 1

PxPerPt == 1333
DefaultRowHeightPt == 15
PxPerWidthUnit == 8300
DefaultColWidthPx == 69969

(* Lines 262-268: maxCols is the largest number of cells of a row. *)
RECURSIVE MaxCellCount(_)
MaxCellCount(rows) ==
    IF rows = <<>> THEN 0
    ELSE Max(Len(Head(rows).Cells), MaxCellCount(Tail(rows)))

(* sheet.Column(c): the column's declaration, or an undeclared column. *)
ColumnDecl(sheet, c) ==
    IF c <= Len(sheet.Cols) THEN sheet.Cols[c]
    ELSE [CustomWidthAttr |-> Nil, WidthAttr |-> 0, HiddenAttr |-> Nil]

(* Lines 270-283. *)
ColWidthOf(sheet, c) ==
    LET col == ColumnDecl(sheet, c) IN
    IF ~IsNil(col.CustomWidthAttr) /\ Deref(col.CustomWidthAttr)
    THEN col.WidthAttr * PxPerWidthUnit ELSE DefaultColWidthPx

ColHiddenOf(sheet, c) ==
    LET col == ColumnDecl(sheet, c) IN
    IF ~IsNil(col.HiddenAttr) THEN Deref(col.HiddenAttr) ELSE FALSE

(* One merge declaration, lines 296-313.  A map write replaces the entry  *)
(* of the same key.                                                       *)
MergeRect(fromRow, fromCol, toRow, toCol) ==
    {<<r, c>> : r \in fromRow..toRow, c \in fromCol..toCol} \ {<<fromRow, fromCol>>}

(* A merge step that does not look at the parse error of the reference. *)
AddMerge_KeepBad(acc, mc) ==
    LET fromRow == mc.from.RowIdx - 1
        fromCol == mc.from.ColumnIdx
        toRow == mc.to.RowIdx - 1
        toCol == mc.to.ColumnIdx
        key == <<fromRow, fromCol>>
    IN  [mergeMaster |->
             {m \in acc.mergeMaster : m.pos # key}
             \cup {[pos |-> key, rowSpan |-> toRow - fromRow + 1,
                    colSpan |-> toCol - fromCol + 1]},
         skipCells |-> acc.skipCells \cup MergeRect(fromRow, fromCol, toRow, toCol)]

AddMerge(acc, mc) ==
    IF mc.err THEN acc
    ELSE LET fromRow == mc.from.RowIdx - 1
             fromCol == mc.from.ColumnIdx
             toRow == mc.to.RowIdx - 1
             toCol == mc.to.ColumnIdx
             key == <<fromRow, fromCol>>
         IN  [mergeMaster |->
                  {m \in acc.mergeMaster : m.pos # key}
                  \cup {[pos |-> key, rowSpan |-> toRow - fromRow + 1,
                         colSpan |-> toCol - fromCol + 1]},
              skipCells |-> acc.skipCells \cup MergeRect(fromRow, fromCol, toRow, toCol)]

RECURSIVE ProcessMerges(_, _)
ProcessMerges(acc, mcs) ==
    IF mcs = <<>> THEN acc
    ELSE ProcessMerges(AddMerge(acc, Head(mcs)), Tail(mcs))

ZeroRow == [HeightPx |-> 0, Hidden |-> FALSE, Cells |-> <<>>]

(* Lines 319-324: the slice grows to hold index rowIdx. *)
GrowRows(rows, rowIdx) ==
    IF rowIdx >= Len(rows) THEN rows \o Repeat(ZeroRow, rowIdx - Len(rows) + 1)
    ELSE rows

(* A row height that ignores the custom height of the row. *)
RowHeightPx_DefaultOnly(row) == DefaultRowHeightPt * PxPerPt

(* Lines 329-333. *)
RowHeightPx(row) ==
    IF ~IsNil(row.CustomHeightAttr) /\ Deref(row.CustomHeightAttr)
    THEN row.HtAttr * PxPerPt ELSE DefaultRowHeightPt * PxPerPt

ZeroRun ==
    [Text |-> EmptyStr, FontFamily |-> EmptyStr, FontSizePt |-> 0, FontColor |-> EmptyStr,
     Bold |-> FALSE, Italic |-> FALSE, Underline |-> FALSE, Strike |-> FALSE,
     VerticalAlign |-> ""]

(* The font color of a run, lines 417-429: theme index 1 is skipped. *)
RunFontColor(w, color) ==
    IF IsNil(color) THEN EmptyStr
    ELSE LET c == Deref(color) IN
         IF ~IsNil(c.RgbAttr) THEN normalizeColor(Deref(c.RgbAttr))
         ELSE IF ~IsNil(c.ThemeAttr) /\ Deref(c.ThemeAttr) # 1
              THEN LET t == ThemeColorToRGB(w, Deref(c.ThemeAttr)) IN
                   IF t.ok THEN t.hex ELSE EmptyStr
              ELSE EmptyStr

(* One rich-text run, lines 408-438. *)
ConvertRun(w, r) ==
    IF IsNil(r.RPr) THEN [ZeroRun EXCEPT !.Text = r.T]
    ELSE LET rp == Deref(r.RPr) IN
         [Text |-> r.T,
          FontFamily |-> IF ~IsNil(rp.RFont) THEN Deref(rp.RFont).ValAttr ELSE EmptyStr,
          FontSizePt |-> IF ~IsNil(rp.Sz) THEN Deref(rp.Sz).ValAttr ELSE 0,
          FontColor |-> RunFontColor(w, rp.Color),
          Bold |-> rp.B, Italic |-> rp.I, Underline |-> rp.U, Strike |-> rp.Strike,
          VerticalAlign |-> IF ~IsNil(rp.VertAlign) THEN Deref(rp.VertAlign) ELSE ""]

(* Lines 402-443: rt is the outcome of cellRichTextString (lines 463-486). *)
ConvertRuns(w, rt) ==
    IF ~IsNil(rt) /\ Len(Deref(rt).R) > 0
    THEN [i \in DOMAIN Deref(rt).R |-> ConvertRun(w, Deref(rt).R[i])]
    ELSE <<>>

(* The merge-master lookup of lines 447-451. *)
SpanOf(masters, rowIdx, colIdx) ==
    IF \E m \in masters : m.pos = <<rowIdx, colIdx>>
    THEN LET m == CHOOSE x \in masters : x.pos = <<rowIdx, colIdx>>
         IN  [rowSpan |-> m.rowSpan, colSpan |-> m.colSpan]
    ELSE [rowSpan |-> 1, colSpan |-> 1]

(* One cell of a row, lines 335-453: the row's Cells after it, or a panic. *)
PlaceCell(w, masters, skips, rowIdx, cells, cell) ==
    IF cell.ColumnErr THEN [panic |-> FALSE, cells |-> cells]
    ELSE LET colIdx == ColumnToIndex(cell.Column) IN
         IF <<rowIdx, colIdx>> \in skips THEN [panic |-> FALSE, cells |-> cells]
         ELSE LET res == ResolveCellStyle(w, cell.SAttr)
                  span == SpanOf(masters, rowIdx, colIdx)
                  rc == [Ref |-> <<cell.Column, rowIdx + 1>>,
                         Value |-> cell.Value,
                         Runs |-> ConvertRuns(w, cell.Rich),
                         ColSpan |-> span.colSpan,
                         RowSpan |-> span.rowSpan,
                         Style |-> res.st]
              IN  IF res.panic \/ colIdx < 0 \/ colIdx >= Len(cells)
                  THEN [panic |-> TRUE, cells |-> cells]
                  ELSE [panic |-> FALSE, cells |-> [cells EXCEPT ![colIdx + 1] = Some(rc)]]

RECURSIVE PlaceCells(_, _, _, _, _, _)
PlaceCells(w, masters, skips, rowIdx, cells, src) ==
    IF src = <<>> THEN [panic |-> FALSE, cells |-> cells]
    ELSE LET one == PlaceCell(w, masters, skips, rowIdx, cells, Head(src)) IN
         IF one.panic THEN one
         ELSE PlaceCells(w, masters, skips, rowIdx, one.cells, Tail(src))

CurSheet == wb.Sheets[si]

(* Lines 254-257: spreadsheet.Read fails and the call returns the error   *)
(* with an empty model.                                                   *)
ReadError ==
    /\ pc = "sheet"
    /\ wb.ReadErr
    /\ pc' = "error"
    /\ UNCHANGED <<wb, si, ri, maxCols, mergeMaster, skipCells, rs, model, renders, doc, out, DebugHTML, calls>>

(* Lines 261-315: column count, column metadata and merges of a sheet. *)
BeginSheet ==
    /\ pc = "sheet"
    /\ ~wb.ReadErr
    /\ si <= Len(wb.Sheets)
    /\ LET sheet == CurSheet
           mc == MaxCellCount(sheet.Rows)
           merges == ProcessMerges([mergeMaster |-> {}, skipCells |-> {}], sheet.MergeCells)
       IN  /\ maxCols' = mc
           /\ rs' = [Name |-> sheet.Name,
                     ColWidths |-> [c \in 1..mc |-> ColWidthOf(sheet, c)],
                     ColHidden |-> [c \in 1..mc |-> ColHiddenOf(sheet, c)],
                     Rows |-> <<>>]
           /\ mergeMaster' = merges.mergeMaster
           /\ skipCells' = merges.skipCells
    /\ ri' = 1
    /\ pc' = "rows"
    /\ UNCHANGED <<wb, si, model, renders, doc, out, DebugHTML, calls>>

(* Lines 318-455: one source row. *)
BuildRow ==
    /\ pc = "rows"
    /\ ri <= Len(CurSheet.Rows)
    /\ LET row == CurSheet.Rows[ri]
           rowIdx == row.RowNumber - 1
           grown == GrowRows(rs.Rows, rowIdx)
           placed == PlaceCells(wb, mergeMaster, skipCells, rowIdx,
                                Repeat(Nil, maxCols), row.Cells)
           rr == [HeightPx |-> RowHeightPx(row), Hidden |-> row.Hidden,
                  Cells |-> placed.cells]
       IN  IF rowIdx < 0 \/ placed.panic
           THEN /\ pc' = "panic"
                /\ UNCHANGED <<rs, ri>>
           ELSE /\ rs' = [rs EXCEPT !.Rows = [grown EXCEPT ![rowIdx + 1] = rr]]
                /\ ri' = ri + 1
                /\ pc' = "rows"
    /\ UNCHANGED <<wb, si, maxCols, mergeMaster, skipCells, model, renders, doc, out, DebugHTML, calls>>

(* Line 457. *)
EndSheet ==
    /\ pc = "rows"
    /\ ri > Len(CurSheet.Rows)
    /\ model' = Append(model, rs)
    /\ si' = si + 1
    /\ pc' = "sheet"
    /\ UNCHANGED <<wb, ri, maxCols, mergeMaster, skipCells, rs, renders, doc, out, DebugHTML, calls>>

(* Line 460: the model is returned after the last sheet. *)
ParseReturn ==
    /\ pc = "sheet"
    /\ ~wb.ReadErr
    /\ si > Len(wb.Sheets)
    /\ pc' = "parsed"
    /\ UNCHANGED <<wb, si, ri, maxCols, mergeMaster, skipCells, rs, model, renders, doc, out, DebugHTML, calls>>

-----------------------------------------------------------------------------
(* RenderWorkbookHTML: style deduplication.                                *)

RECURSIVE FilterSeq(_, _)
FilterSeq(str, keep) ==
    IF str = <<>> THEN <<>>
    ELSE (IF Head(str) \in keep THEN <<Head(str)>> ELSE <<>>) \o FilterSeq(Tail(str), keep)

(* fontFamilySafeRe deletes every run of characters outside the safe set. *)
sanitizeFontFamily(str) == FilterSeq(str, FontFamilySafeChars)

(* hexColorRe: three or six hexadecimal digits, else the empty string. *)
sanitizeColor(str) ==
    IF Len(str) \in {3, 6} /\ \A i \in DOMAIN str : str[i] \in HexDigits
    THEN str ELSE EmptyStr

RECURSIVE Flatten(_)
Flatten(seqs) == IF seqs = <<>> THEN <<>> ELSE Head(seqs) \o Flatten(Tail(seqs))

(* The non-nil cells of a row, a sheet, the workbook, in the order of the *)
(* loops at lines 66-68.                                                  *)
RowCells(row) == Flatten([i \in DOMAIN row.Cells |-> row.Cells[i]])
SheetCells(sheet) == Flatten([i \in DOMAIN sheet.Rows |-> RowCells(sheet.Rows[i])])
ModelCells(m) == Flatten([i \in DOMAIN m |-> SheetCells(m[i])])

SeqProps == {"FontFamily", "FontColor", "BackgroundColor", "BorderColor"}
EnumProps == {"HorizontalAlign", "VerticalAlign"}
NumProps == {"FontSizePt", "IndentPx"}

(* The guards of the tallies at lines 74-98. *)
IsCounted(prop, v) ==
    CASE prop \in SeqProps -> v # EmptyStr
      [] prop \in EnumProps -> v # ""
      [] prop \in NumProps -> v > 0
      [] OTHER -> TRUE

ZeroOf(prop) == ZeroStyle[prop]

(* The tally map of one property: value -> count. *)
PropCount(cells, prop) ==
    LET keys == {cells[i].Style[prop] : i \in {j \in DOMAIN cells :
                                               IsCounted(prop, cells[j].Style[prop])}}
    IN  [k \in keys |-> Cardinality({i \in DOMAIN cells : cells[i].Style[prop] = k})]

(* mostCommonStr / mostCommonFloat / mostCommonBool, lines 110-142: the   *)
(* first key, in the iteration order of the map, that holds the largest   *)
(* count.  The iteration order of a Go map is unspecified, so every key   *)
(* with the largest count is a possible result; an empty map gives the    *)
(* zero value and 0.                                                       *)
mostCommon(count, zero) ==
    IF DOMAIN count = {} THEN {[val |-> zero, n |-> 0]}
    ELSE {[val |-> k, n |-> count[k]] :
             k \in {x \in DOMAIN count : \A y \in DOMAIN count : count[y] <= count[x]}}

(* A threshold that lets a value held by exactly half of the cells win. *)
MajorityDefault_AtHalf(mc, styledCells, zero) ==
    IF 2 * mc.n < styledCells THEN zero ELSE mc.val

(* Lines 146-172: a most common value is kept only with a majority. *)
MajorityDefault(mc, styledCells, zero) ==
    IF mc.n <= styledCells \div 2 THEN zero ELSE mc.val

(* The default of a property that needs a majority, for every outcome of  *)
(* the map iteration.                                                     *)
DefaultsOf(cells, prop) ==
    {MajorityDefault(mc, Len(cells), ZeroOf(prop)) :
         mc \in mostCommon(PropCount(cells, prop), ZeroOf(prop))}

(* Line 174: the most common wrap flag, whatever its count. *)
WrapDefaultsOf(cells) == {mc.val : mc \in mostCommon(PropCount(cells, "WrapText"), FALSE)}

(* Lines 144-175: the defaults RenderWorkbookHTML may compute. *)
ComputeDefaults(cells) ==
    [FontFamily : DefaultsOf(cells, "FontFamily"),
     FontSizePt : DefaultsOf(cells, "FontSizePt"),
     BorderColor : DefaultsOf(cells, "BorderColor"),
     HorizontalAlign : DefaultsOf(cells, "HorizontalAlign"),
     VerticalAlign : DefaultsOf(cells, "VerticalAlign"),
     FontColor : DefaultsOf(cells, "FontColor"),
     BackgroundColor : DefaultsOf(cells, "BackgroundColor"),
     WrapText : WrapDefaultsOf(cells),
     IndentPx : {0}]

(* Lines 61-63 and 99-104: classes in first-seen order.  styleMap is the  *)
(* set of its entries [st, className]; a class name cellstyle<n> is n.    *)
RECURSIVE CollectStyles(_, _)
CollectStyles(acc, cells) ==
    IF cells = <<>> THEN acc
    ELSE LET st == Head(cells).Style IN
         IF \E e \in acc.styleMap : e.st = st
         THEN CollectStyles(acc, Tail(cells))
         ELSE CollectStyles([styleMap |-> acc.styleMap
                                          \cup {[st |-> st, className |-> acc.classIdx]},
                             styleList |-> Append(acc.styleList, st),
                             classIdx |-> acc.classIdx + 1],
                            Tail(cells))

(* styleMap[st]: the class name, or the empty name of a missing key. *)
NoClass == 0
ClassOf(styleMap, st) ==
    IF \E e \in styleMap : e.st = st
    THEN (CHOOSE e \in styleMap : e.st = st).className
    ELSE NoClass

(* A CSS declaration block: one optional value per property.  The block   *)
(* is the empty string when no property is present.                       *)
EmptyCss ==
    [font_family |-> Nil, font_size |-> Nil, color |-> Nil, background_color |-> Nil,
     border |-> Nil, text_align |-> Nil, vertical_align |-> Nil, white_space |-> Nil,
     padding_left |-> Nil, padding_right |-> Nil]

(* The horizontal alignment written as it is stored. *)
TextAlign_Verbatim(h) == h

TextAlign(h) ==
    CASE h \in {"center", "centerContinuous", "distributed"} -> "center"
      [] h = "right" -> "right"
      [] h = "justify" -> "justify"
      [] OTHER -> "left"

VertAlign(v) ==
    CASE v = "top" -> "top"
      [] v = "middle" -> "middle"
      [] OTHER -> "bottom"

BorderFallback == <<"3", "3", "3">>

SafeColor(c) == IF sanitizeColor(c) # EmptyStr THEN Some(sanitizeColor(c)) ELSE Nil

(* The rule of .table td, lines 180-233. *)
TableTdCss(def) ==
    [EmptyCss EXCEPT
       !.font_family = IF def.FontFamily # EmptyStr
                       THEN Some(sanitizeFontFamily(def.FontFamily)) ELSE Nil,
       !.font_size = IF def.FontSizePt > 0 THEN Some(def.FontSizePt) ELSE Nil,
       !.color = IF def.FontColor # EmptyStr THEN SafeColor(def.FontColor) ELSE Nil,
       !.background_color =
           IF def.BackgroundColor # EmptyStr THEN SafeColor(def.BackgroundColor) ELSE Nil,
       !.border = IF def.BorderColor # EmptyStr /\ sanitizeColor(def.BorderColor) # EmptyStr
                  THEN Some(sanitizeColor(def.BorderColor)) ELSE Some(BorderFallback),
       !.white_space = IF ~def.WrapText THEN Some("nowrap") ELSE Nil,
       !.text_align = IF def.HorizontalAlign # ""
                      THEN Some(TextAlign(def.HorizontalAlign)) ELSE Nil,
       !.vertical_align = IF def.VerticalAlign # ""
                          THEN Some(VertAlign(def.VerticalAlign)) ELSE Nil]

(* styleToCSSDiff, lines 335-395. *)
styleToCSSDiff(s, def) ==
    LET ta == IF s.HorizontalAlign # "" /\ s.HorizontalAlign # def.HorizontalAlign
              THEN Some(TextAlign(s.HorizontalAlign)) ELSE Nil
        indent == s.IndentPx > 0 /\ s.IndentPx # def.IndentPx
        right == ta = Some("right")
    IN
    [EmptyCss EXCEPT
       !.font_family = IF s.FontFamily # EmptyStr /\ s.FontFamily # def.FontFamily
                       THEN Some(sanitizeFontFamily(s.FontFamily)) ELSE Nil,
       !.font_size = IF s.FontSizePt > 0 /\ s.FontSizePt # def.FontSizePt
                     THEN Some(s.FontSizePt) ELSE Nil,
       !.color = IF s.FontColor # EmptyStr /\ s.FontColor # def.FontColor
                 THEN SafeColor(s.FontColor) ELSE Nil,
       !.background_color =
           IF s.BackgroundColor # EmptyStr /\ s.BackgroundColor # def.BackgroundColor
           THEN SafeColor(s.BackgroundColor) ELSE Nil,
       !.border = IF s.BorderColor # EmptyStr /\ s.BorderColor # def.BorderColor
                  THEN SafeColor(s.BorderColor) ELSE Nil,
       !.text_align = ta,
       !.vertical_align = IF s.VerticalAlign # "" /\ s.VerticalAlign # def.VerticalAlign
                          THEN Some(VertAlign(s.VerticalAlign)) ELSE Nil,
       !.white_space = IF s.WrapText # def.WrapText
                       THEN (IF s.WrapText THEN Some("normal") ELSE Some("nowrap"))
                       ELSE Nil,
       !.padding_right = IF indent /\ right THEN Some(s.IndentPx) ELSE Nil,
       !.padding_left = IF indent /\ ~right THEN Some(s.IndentPx) ELSE Nil]

(* A rule name taken from the zero-based loop index. *)
ClassRuleName_ZeroBased(i) == i - 1

(* Lines 236-243: one rule per style of styleList whose block is not      *)
(* empty, named by its position.                                          *)
ClassRuleName(i) == i

ClassRules(styleList, def) ==
    LET idx == {i \in DOMAIN styleList : styleToCSSDiff(styleList[i], def) # EmptyCss}
    IN  {[className |-> ClassRuleName(i), css |-> styleToCSSDiff(styleList[i], def)] : i \in idx}

-----------------------------------------------------------------------------
(* RenderWorkbookHTML: markup.                                             *)

(* html.EscapeString: the five characters <, >, &, ' and " become entity   *)
(* references; an entity reference is one element of the escaped text.     *)
EscapeChar(ch) ==
    CASE ch = "<" -> "&lt;"
      [] ch = ">" -> "&gt;"
      [] ch = "&" -> "&amp;"
      [] ch = "'" -> "&#39;"
      [] ch = "\"" -> "&#34;"
      [] OTHER -> ch

EscapeString(str) == [i \in DOMAIN str |-> EscapeChar(str[i])]

(* strings.ReplaceAll(text, "\n", "<br>"), lines 293 and 307. *)
BreakLines(str) == [i \in DOMAIN str |-> IF str[i] = "\n" THEN "<br>" ELSE str[i]]

(* runToInlineCSS, lines 398-431. *)
runToInlineCSS(r) ==
    [font_family |-> IF r.FontFamily # EmptyStr
                     THEN Some(sanitizeFontFamily(r.FontFamily)) ELSE Nil,
     font_size |-> IF r.FontSizePt > 0 THEN Some(r.FontSizePt) ELSE Nil,
     color |-> IF r.FontColor # EmptyStr THEN SafeColor(r.FontColor) ELSE Nil,
     font_weight |-> IF r.Bold THEN Some("bold") ELSE Nil,
     font_style |-> IF r.Italic THEN Some("italic") ELSE Nil,
     text_decoration |-> IF r.Underline /\ r.Strike THEN Some("underline line-through")
                         ELSE IF r.Underline THEN Some("underline")
                         ELSE IF r.Strike THEN Some("line-through") ELSE Nil,
     vertical_align |-> CASE r.VerticalAlign = "superscript" -> Some("super")
                          [] r.VerticalAlign = "subscript" -> Some("sub")
                          [] OTHER -> Nil]

(* Lines 289-304: the <span> elements of a cell with runs. *)
RenderRunsHTML(runs) ==
    [i \in DOMAIN runs |->
        [style |-> runToInlineCSS(runs[i]), text |-> BreakLines(EscapeString(runs[i].Text))]]

(* Lines 272-326: the <td> elements of one row, from column colIdx        *)
(* (zero-based) on.                                                       *)
RECURSIVE RenderCellsFrom(_, _, _)
RenderCellsFrom(cells, colIdx, styleMap) ==
    IF colIdx >= Len(cells) THEN <<>>
    ELSE LET p == cells[colIdx + 1] IN
         IF IsNil(p)
         THEN <<[blank |-> TRUE, colIdx |-> colIdx, colspan |-> 1, rowspan |-> 1,
                 class |-> NoClass, dataCell |-> <<EmptyStr, 0>>, spans |-> <<>>, text |-> EmptyStr]>>
              \o RenderCellsFrom(cells, colIdx + 1, styleMap)
         ELSE LET cell == Deref(p) IN
              <<[blank |-> FALSE, colIdx |-> colIdx,
                 colspan |-> IF cell.ColSpan > 1 THEN cell.ColSpan ELSE 1,
                 rowspan |-> IF cell.RowSpan > 1 THEN cell.RowSpan ELSE 1,
                 class |-> ClassOf(styleMap, cell.Style),
                 dataCell |-> <<EscapeString(cell.Ref[1]), cell.Ref[2]>>,
                 spans |-> RenderRunsHTML(cell.Runs),
                 text |-> IF Len(cell.Runs) > 0 THEN EmptyStr
                          ELSE BreakLines(EscapeString(cell.Value))]>>
              \o RenderCellsFrom(cells,
                                 (IF cell.ColSpan > 1 THEN colIdx + cell.ColSpan - 1 ELSE colIdx) + 1,
                                 styleMap)

(* Lines 266-328. *)
RenderRowHTML(row, styleMap) ==
    [height |-> row.HeightPx, displayNone |-> row.Hidden,
     tds |-> RenderCellsFrom(row.Cells, 0, styleMap)]

(* Lines 246-330. *)
RenderSheetHTML(sheet, styleMap) ==
    [name |-> EscapeString(sheet.Name),
     cols |-> [i \in DOMAIN sheet.ColWidths |->
                  [width |-> sheet.ColWidths[i], displayNone |-> sheet.ColHidden[i]]],
     trs |-> [i \in DOMAIN sheet.Rows |-> RenderRowHTML(sheet.Rows[i], styleMap)]]

(* RenderWorkbookHTML(m), lines 46-332, with the defaults def computed   *)
(* at lines 144-175.                                                      *)
RenderWorkbookHTML(m, def) ==
    LET cells == ModelCells(m)
        styledCells == Len(cells)
        col == CollectStyles([styleMap |-> {}, styleList |-> <<>>, classIdx |-> 1], cells)
    IN  [styledCells |-> styledCells,
         styleMap |-> col.styleMap,
         styleList |-> col.styleList,
         defaults |-> def,
         tableTd |-> TableTdCss(def),
         rules |-> ClassRules(col.styleList, def),
         sheets |-> [i \in DOMAIN m |-> RenderSheetHTML(m[i], col.styleMap)]]

Render ==
    /\ pc = "parsed"
    /\ Len(renders) < MaxRenders
    /\ \E def \in ComputeDefaults(ModelCells(model)) :
           renders' = Append(renders, RenderWorkbookHTML(model, def))
    /\ UNCHANGED <<wb, pc, si, ri, maxCols, mergeMaster, skipCells, rs, model, doc, out, DebugHTML, calls>>

-----------------------------------------------------------------------------
(* XlsxToHTML of package convert (src/xlsx.go): the converter that writes  *)
(* the markup of a workbook without building the IR.                       *)

EmptyInline ==
    [font_family |-> Nil, font_size |-> Nil, color |-> Nil, background_color |-> Nil,
     border_left |-> Nil, text_align |-> Nil, vertical_align |-> Nil, white_space |-> Nil,
     padding_left |-> Nil, padding_right |-> Nil]

(* Lines 292-313: font name and colors are written as the document gives  *)
(* them.                                                                   *)
InlineColors(w, font, fill, border) ==
    [EmptyInline EXCEPT
       !.font_family = IF ~IsNil(font) /\ Len(Deref(font).Name) > 0
                       THEN Some(Deref(font).Name[1].ValAttr) ELSE Nil,
       !.font_size = IF ~IsNil(font) /\ Len(Deref(font).Sz) > 0
                     THEN Some(Deref(font).Sz[1].ValAttr) ELSE Nil,
       !.color = IF ~IsNil(font) /\ Len(Deref(font).Color) > 0
                    /\ ~IsNil(Deref(font).Color[1].RgbAttr)
                    /\ Deref(Deref(font).Color[1].RgbAttr) # EmptyStr
                 THEN Deref(font).Color[1].RgbAttr ELSE Nil,
       !.background_color =
           IF IsNil(fill) \/ IsNil(Deref(fill).PatternFill)
              \/ IsNil(Deref(Deref(fill).PatternFill).FgColor)
           THEN Nil
           ELSE LET fg == Deref(Deref(Deref(fill).PatternFill).FgColor) IN
                IF ~IsNil(fg.RgbAttr) /\ Deref(fg.RgbAttr) # EmptyStr THEN fg.RgbAttr
                ELSE IF ~IsNil(fg.ThemeAttr)
                     THEN LET t == ThemeColorToRGB(w, Deref(fg.ThemeAttr)) IN
                          IF t.ok THEN Some(t.hex) ELSE Nil
                     ELSE Nil,
       !.border_left =
           IF ~IsNil(border) /\ ~IsNil(Deref(border).Left)
              /\ ~IsNil(Deref(Deref(border).Left).Color)
              /\ ~IsNil(Deref(Deref(Deref(border).Left).Color).RgbAttr)
              /\ Deref(Deref(Deref(Deref(border).Left).Color).RgbAttr) # EmptyStr
           THEN Deref(Deref(Deref(border).Left).Color).RgbAttr ELSE Nil]

(* Lines 316-350. *)
InlineAlignment(css, xf) ==
    IF IsNil(xf.Alignment) THEN css
    ELSE LET al == Deref(xf.Alignment)
             ta == CASE al.HorizontalAttr \in {"left", "general"} -> Some("left")
                     [] al.HorizontalAttr \in {"center", "centerContinuous", "distributed"}
                            -> Some("center")
                     [] al.HorizontalAttr = "right" -> Some("right")
                     [] al.HorizontalAttr = "justify" -> Some("justify")
                     [] OTHER -> Nil
             indent == IF ~IsNil(al.IndentAttr) /\ Deref(al.IndentAttr) > 0
                       THEN Some(Deref(al.IndentAttr) * IndentPxPerLevel) ELSE Nil
         IN  [css EXCEPT
                !.text_align = ta,
                !.vertical_align = CASE al.VerticalAttr = "top" -> Some("top")
                                     [] al.VerticalAttr = "center" -> Some("middle")
                                     [] OTHER -> Nil,
                !.white_space = IF IsNil(al.WrapTextAttr) THEN Nil
                                ELSE IF Deref(al.WrapTextAttr) THEN Some("normal")
                                ELSE Some("nowrap"),
                !.padding_right = IF ta = Some("right") THEN indent ELSE Nil,
                !.padding_left = IF ta = Some("right") THEN Nil ELSE indent]

(* Line 290: CellXfs.Xf[styleID] is unchecked. *)
InlineStylePanics(w, sAttr) ==
    ~IsNil(sAttr) /\ (Deref(sAttr) < 0 \/ Deref(sAttr) >= Len(w.StyleSheet.CellXfs))

(* Lines 285-352: the inline style of a cell whose style ID is in range. *)
CellInlineStyle(w, sAttr) ==
    IF IsNil(sAttr) THEN EmptyInline
    ELSE LET ss == w.StyleSheet IN
         InlineAlignment(
             InlineColors(w, GetFontProps(ss, Deref(sAttr)), GetFillProps(ss, Deref(sAttr)),
                          GetBorderProps(ss, Deref(sAttr))),
             ss.CellXfs[Deref(sAttr) + 1])

(* Lines 252-258: the last cell of the row at a column is the one of      *)
(* cellMap.                                                                *)
CellMapAt(cells, colIdx) ==
    LET at == {x \in DOMAIN cells : ~cells[x].ColumnErr /\ ColumnToIndex(cells[x].Column) = colIdx}
    IN  IF at = {} THEN Nil ELSE Some(cells[CHOOSE x \in at : \A y \in at : y <= x])

(* Lines 260-264: the columns of a row that get a <td>, in order. *)
InlineColumns(skips, rowNum0, cols) ==
    SelectSeq([i \in 1..cols |-> i - 1], LAMBDA c : <<rowNum0, c>> \notin skips)

(* Lines 266-358: one <td>. *)
InlineCellHTML(w, masters, rowNum0, cells, colIdx1) ==
    [row |-> rowNum0, col |-> colIdx1,
     colspan |-> IF SpanOf(masters, rowNum0, colIdx1).colSpan > 1
                 THEN SpanOf(masters, rowNum0, colIdx1).colSpan ELSE 1,
     rowspan |-> IF SpanOf(masters, rowNum0, colIdx1).rowSpan > 1
                 THEN SpanOf(masters, rowNum0, colIdx1).rowSpan ELSE 1,
     style |-> IF IsNil(CellMapAt(cells, colIdx1)) THEN EmptyInline
               ELSE CellInlineStyle(w, Deref(CellMapAt(cells, colIdx1)).SAttr),
     text |-> IF IsNil(CellMapAt(cells, colIdx1)) THEN EmptyStr
              ELSE EscapeString(Deref(CellMapAt(cells, colIdx1)).Value)]

(* Lines 238-361: one <tr>. *)
InlineRowHTML(w, masters, skips, row, cols) ==
    [height |-> IF ~IsNil(row.CustomHeightAttr) /\ Deref(row.CustomHeightAttr)
                THEN Some(row.HtAttr) ELSE Nil,
     displayNone |-> row.Hidden,
     tds |-> [x \in DOMAIN InlineColumns(skips, row.RowNumber - 1, cols) |->
                 InlineCellHTML(w, masters, row.RowNumber - 1, row.Cells,
                                InlineColumns(skips, row.RowNumber - 1, cols)[x])]]

(* Lines 151-364: one sheet. *)
InlineSheetHTML(w, sheet) ==
    LET merges == ProcessMerges([mergeMaster |-> {}, skipCells |-> {}], sheet.MergeCells)
        cols == MaxCellCount(sheet.Rows)
    IN  [name |-> EscapeString(sheet.Name),
         cols |-> [c \in 1..cols |->
                      [width |-> ColWidthOf(sheet, c), displayNone |-> ColHiddenOf(sheet, c)]],
         trs |-> [k \in DOMAIN sheet.Rows |->
                     InlineRowHTML(w, merges.mergeMaster, merges.skipCells, sheet.Rows[k], cols)]]

(* The call panics when a cell that gets a <td> has a style ID past the   *)
(* end of the style table.                                                 *)
XlsxToHTMLPanics(w) ==
    \E i \in DOMAIN w.Sheets : \E k \in DOMAIN w.Sheets[i].Rows :
        LET sheet == w.Sheets[i]
            row == sheet.Rows[k]
            skips == ProcessMerges([mergeMaster |-> {}, skipCells |-> {}], sheet.MergeCells).skipCells
        IN  \E c \in 0..(MaxCellCount(sheet.Rows) - 1) :
                /\ <<row.RowNumber - 1, c>> \notin skips
                /\ ~IsNil(CellMapAt(row.Cells, c))
                /\ InlineStylePanics(w, Deref(CellMapAt(row.Cells, c)).SAttr)

(* XlsxToHTML(r, size), lines 123-370: the call returns an error for a    *)
(* workbook that cannot be read, a bare table for a workbook without       *)
(* sheets, else the markup of the sheets.                                  *)
XlsxToHTML ==
    /\ pc = "sheet"
    /\ si = 1
    /\ IF wb.ReadErr
       THEN /\ pc' = "error"
            /\ out' = Append(out, [entry |-> "convert.XlsxToHTML", err |-> TRUE, html |-> Nil])
       ELSE IF Len(wb.Sheets) > 0 /\ XlsxToHTMLPanics(wb)
            THEN pc' = "panic" /\ out' = out
            ELSE /\ pc' = "returned"
                 /\ out' = Append(out, [entry |-> "convert.XlsxToHTML", err |-> FALSE,
                                        html |-> Some([i \in DOMAIN wb.Sheets |->
                                                          InlineSheetHTML(wb, wb.Sheets[i])])])
    /\ UNCHANGED <<wb, si, ri, maxCols, mergeMaster, skipCells, rs, model, renders, doc, DebugHTML, calls>>

-----------------------------------------------------------------------------
(* Word-processing documents: src/docx/model.go, src/docx/parse.go and the *)
(* renderer of package docx.  A document is [ReadErr, Xml, Body]: Body is  *)
(* nil or the content blocks of the body in order, each with its top-level *)
(* paragraphs P and its top-level tables Tbl.  A paragraph is              *)
(* [Style, Runs], a run [Text, Bold, Italic], a table [Rows] of [Cells] of *)
(* [Paragraphs].                                                           *)

Heading == <<"H", "e", "a", "d", "i", "n", "g">>

HasPrefix(s, prefix) == Len(s) >= Len(prefix) /\ SubSeq(s, 1, Len(prefix)) = prefix

(* doc.Paragraphs(): the top-level paragraphs of the first n content       *)
(* blocks, in body order.                                                  *)
RECURSIVE BodyParagraphs(_, _)
BodyParagraphs(body, n) ==
    IF n = 0 THEN <<>> ELSE BodyParagraphs(body, n - 1) \o body[n].P

(* doc.Tables(): the top-level tables of the first n content blocks. *)
RECURSIVE BodyTables(_, _)
BodyTables(body, n) ==
    IF n = 0 THEN <<>> ELSE BodyTables(body, n - 1) \o body[n].Tbl

(* model.go lines 207-229: the runs of a paragraph; a run without text is  *)
(* skipped and the text of the others is written as it is.                 *)
LegacyRunsHTML(runs) ==
    [i \in DOMAIN SelectSeq(runs, LAMBDA r : r.Text # EmptyStr) |->
        [b |-> SelectSeq(runs, LAMBDA r : r.Text # EmptyStr)[i].Bold,
         i |-> SelectSeq(runs, LAMBDA r : r.Text # EmptyStr)[i].Italic,
         text |-> SelectSeq(runs, LAMBDA r : r.Text # EmptyStr)[i].Text]]

(* model.go lines 205-235: one paragraph, <h1> for every heading style. *)
LegacyParagraphHTML(para) ==
    [tag |-> IF HasPrefix(para.Style, Heading) THEN [name |-> "h", level |-> 1]
             ELSE [name |-> "p", level |-> 0],
     runs |-> LegacyRunsHTML(para.Runs)]

(* DocxToHTML(r, size) of model.go, lines 196-238. *)
DocxToHTML ==
    /\ pc = "call"
    /\ IF doc.ReadErr
       THEN /\ pc' = "error"
            /\ out' = Append(out, [entry |-> "convert.DocxToHTML", err |-> TRUE, html |-> Nil])
       ELSE /\ pc' = "returned"
            /\ out' = Append(out,
                   [entry |-> "convert.DocxToHTML", err |-> FALSE,
                    html |-> Some(IF IsNil(doc.Body) THEN <<>>
                                  ELSE [i \in DOMAIN BodyParagraphs(Deref(doc.Body), Len(Deref(doc.Body))) |->
                                           LegacyParagraphHTML(
                                               BodyParagraphs(Deref(doc.Body), Len(Deref(doc.Body)))[i])])])
    /\ UNCHANGED <<wb, si, ri, maxCols, mergeMaster, skipCells, rs, model, renders, doc, DebugHTML, calls>>

ZeroRunStyle ==
    [FontFamily |-> EmptyStr, FontSizePt |-> 0, FontColor |-> EmptyStr, Bold |-> FALSE,
     Italic |-> FALSE, Underline |-> FALSE, Strike |-> FALSE, VerticalAlign |-> ""]

ZeroParagraphStyle ==
    [Alignment |-> "", LineSpacingPt |-> 0, SpaceBeforePt |-> 0, SpaceAfterPt |-> 0,
     IndentLeftPx |-> 0, IndentRightPx |-> 0, HeadingLevel |-> 0, ListType |-> "",
     ListLevel |-> 0]

ZeroTableCellStyle == [BackgroundColor |-> EmptyStr, VerticalAlign |-> ""]

(* parse.go lines 71-77. *)
convertRun(r) == [Text |-> r.Text, Style |-> ZeroRunStyle]

(* parse.go lines 80-91. *)
convertParagraph(p) ==
    [Runs |-> [i \in DOMAIN p.Runs |-> convertRun(p.Runs[i])], Style |-> ZeroParagraphStyle]

(* parse.go lines 94-117. *)
convertTable(t) ==
    [Rows |-> [r \in DOMAIN t.Rows |->
        [Cells |-> [c \in DOMAIN t.Rows[r].Cells |->
            [Paragraphs |-> [k \in DOMAIN t.Rows[r].Cells[c].Paragraphs |->
                                convertParagraph(t.Rows[r].Cells[c].Paragraphs[k])],
             ColSpan |-> 1, RowSpan |-> 1, WidthPx |-> 0, Style |-> ZeroTableCellStyle]]]]]

(* A block for every content block, also for one that holds neither a    *)
(* paragraph nor a table.                                                  *)
ContentBlocks_EveryElement(c) ==
    IF Len(c.P) = 0 /\ Len(c.Tbl) = 0 THEN <<[Paragraph |-> Nil, Table |-> Nil]>>
    ELSE [i \in DOMAIN c.P |-> [Paragraph |-> Some(convertParagraph(c.P[i])), Table |-> Nil]]
         \o [i \in DOMAIN c.Tbl |-> [Paragraph |-> Nil, Table |-> Some(convertTable(c.Tbl[i]))]]

(* parse.go lines 44-62: the blocks of one content block, all its          *)
(* paragraphs and then all its tables.                                     *)
ContentBlocks(c) ==
    [i \in DOMAIN c.P |-> [Paragraph |-> Some(convertParagraph(c.P[i])), Table |-> Nil]]
    \o [i \in DOMAIN c.Tbl |-> [Paragraph |-> Nil, Table |-> Some(convertTable(c.Tbl[i]))]]

(* The blocks grouped by type: all paragraphs, then all tables. *)
BodyBlocks_ByType(body, n) ==
    [i \in DOMAIN BodyParagraphs(body, n) |->
        [Paragraph |-> Some(convertParagraph(BodyParagraphs(body, n)[i])), Table |-> Nil]]
    \o [i \in DOMAIN BodyTables(body, n) |->
           [Paragraph |-> Nil, Table |-> Some(convertTable(BodyTables(body, n)[i]))]]

(* parse.go lines 42-64: the blocks of the first n content blocks. *)
RECURSIVE BodyBlocks(_, _)
BodyBlocks(body, n) ==
    IF n = 0 THEN <<>> ELSE BodyBlocks(body, n - 1) \o ContentBlocks(body[n])

EmptyDocumentModel == [Blocks |-> <<>>, Paragraphs |-> <<>>, Tables |-> <<>>]

(* ParseDocumentModel(r, size), parse.go lines 16-67, of a document that   *)
(* was read.                                                               *)
ParseDocumentModel(d) ==
    IF IsNil(d.Body) THEN EmptyDocumentModel
    ELSE [Blocks |-> BodyBlocks(Deref(d.Body), Len(Deref(d.Body))),
          Paragraphs |-> [i \in DOMAIN BodyParagraphs(Deref(d.Body), Len(Deref(d.Body))) |->
                             convertParagraph(BodyParagraphs(Deref(d.Body), Len(Deref(d.Body)))[i])],
          Tables |-> [i \in DOMAIN BodyTables(Deref(d.Body), Len(Deref(d.Body))) |->
                         convertTable(BodyTables(Deref(d.Body), Len(Deref(d.Body)))[i])]]

(* A call of ParseDocumentModel(r, size), parse.go lines 16-67. *)
ParseDocument ==
    /\ pc = "call"
    /\ pc' = IF doc.ReadErr THEN "error" ELSE "returned"
    /\ out' = Append(out, [entry |-> "docx.ParseDocumentModel", err |-> doc.ReadErr, html |-> Nil,
                           mdl |-> IF doc.ReadErr THEN EmptyDocumentModel
                                   ELSE ParseDocumentModel(doc)])
    /\ UNCHANGED <<wb, si, ri, maxCols, mergeMaster, skipCells, rs, model, renders, doc, DebugHTML, calls>>

(* part_000 lines 84-117. *)
runStyleToCSS(s) ==
    [font_family |-> IF s.FontFamily # EmptyStr
                     THEN Some(sanitizeFontFamily(s.FontFamily)) ELSE Nil,
     font_size |-> IF s.FontSizePt > 0 THEN Some(s.FontSizePt) ELSE Nil,
     color |-> IF s.FontColor # EmptyStr THEN SafeColor(s.FontColor) ELSE Nil,
     font_weight |-> IF s.Bold THEN Some("bold") ELSE Nil,
     font_style |-> IF s.Italic THEN Some("italic") ELSE Nil,
     text_decoration |-> IF s.Underline /\ s.Strike THEN Some("underline line-through")
                         ELSE IF s.Underline THEN Some("underline")
                         ELSE IF s.Strike THEN Some("line-through") ELSE Nil,
     vertical_align |-> CASE s.VerticalAlign = "superscript" -> Some("super")
                          [] s.VerticalAlign = "subscript" -> Some("sub")
                          [] OTHER -> Nil]

(* part_000 lines 123-151. *)
paragraphStyleToCSS(s) ==
    [text_align |-> IF s.Alignment \in {"center", "right", "justify"}
                    THEN Some(s.Alignment) ELSE Nil,
     margin_top |-> IF s.SpaceBeforePt > 0 THEN Some(s.SpaceBeforePt) ELSE Nil,
     margin_bottom |-> IF s.SpaceAfterPt > 0 THEN Some(s.SpaceAfterPt) ELSE Nil,
     padding_left |-> IF s.IndentLeftPx > 0 THEN Some(s.IndentLeftPx) ELSE Nil,
     padding_right |-> IF s.IndentRightPx > 0 THEN Some(s.IndentRightPx) ELSE Nil]

(* part_000 lines 157-175. *)
cellStyleToCSS(s) ==
    [background_color |-> IF s.BackgroundColor # EmptyStr
                          THEN SafeColor(s.BackgroundColor) ELSE Nil,
     vertical_align |-> IF s.VerticalAlign = "" THEN Nil
                        ELSE IF s.VerticalAlign \in {"top", "middle"}
                             THEN Some(s.VerticalAlign) ELSE Some("bottom")]

(* part_000 lines 181-198: one <span> per run. *)
renderRunsHTML(runs) ==
    [i \in DOMAIN runs |->
        [style |-> runStyleToCSS(runs[i].Style),
         text |-> BreakLines(EscapeString(runs[i].Text))]]

(* part_000 lines 200-216. *)
renderParagraphHTML(p) ==
    [tag |-> IF p.Style.HeadingLevel > 0 /\ p.Style.HeadingLevel <= 6
             THEN [name |-> "h", level |-> p.Style.HeadingLevel]
             ELSE [name |-> "p", level |-> 0],
     style |-> paragraphStyleToCSS(p.Style),
     spans |-> renderRunsHTML(p.Runs)]

(* part_000 lines 222-265: a cell without paragraphs holds "&nbsp;". *)
renderTableHTML(t) ==
    [trs |-> [r \in DOMAIN t.Rows |->
        [tds |-> [c \in DOMAIN t.Rows[r].Cells |->
            [colspan |-> IF t.Rows[r].Cells[c].ColSpan > 1
                         THEN Some(t.Rows[r].Cells[c].ColSpan) ELSE Nil,
             rowspan |-> IF t.Rows[r].Cells[c].RowSpan > 1
                         THEN Some(t.Rows[r].Cells[c].RowSpan) ELSE Nil,
             style |-> cellStyleToCSS(t.Rows[r].Cells[c].Style),
             width |-> IF t.Rows[r].Cells[c].WidthPx > 0
                       THEN Some(t.Rows[r].Cells[c].WidthPx) ELSE Nil,
             nbsp |-> Len(t.Rows[r].Cells[c].Paragraphs) = 0,
             paras |-> [k \in DOMAIN t.Rows[r].Cells[c].Paragraphs |->
                           renderParagraphHTML(t.Rows[r].Cells[c].Paragraphs[k])]]]]]]

(* part_000 lines 277-283: the first n blocks in order; a block with       *)
(* neither variant writes nothing.                                         *)
RECURSIVE RenderBlocks(_, _)
RenderBlocks(blocks, n) ==
    IF n = 0 THEN <<>>
    ELSE RenderBlocks(blocks, n - 1)
         \o (IF ~IsNil(blocks[n].Paragraph)
             THEN <<[kind |-> "paragraph", el |-> renderParagraphHTML(Deref(blocks[n].Paragraph))]>>
             ELSE IF ~IsNil(blocks[n].Table)
                  THEN <<[kind |-> "table", el |-> renderTableHTML(Deref(blocks[n].Table))]>>
                  ELSE <<>>)

(* RenderDocumentHTML(m), part_000 lines 272-296: the elements of <body>. *)
RenderDocumentHTML(m) ==
    IF Len(m.Blocks) > 0 THEN RenderBlocks(m.Blocks, Len(m.Blocks))
    ELSE [i \in DOMAIN m.Paragraphs |->
             [kind |-> "paragraph", el |-> renderParagraphHTML(m.Paragraphs[i])]]
         \o [i \in DOMAIN m.Tables |->
                [kind |-> "table", el |-> renderTableHTML(m.Tables[i])]]

(* The outcome of a call of a converter of package docx. *)
DocxResult(entry) ==
    IF doc.ReadErr THEN [entry |-> entry, err |-> TRUE, html |-> Nil]
    ELSE [entry |-> entry, err |-> FALSE,
          html |-> Some(RenderDocumentHTML(ParseDocumentModel(doc)))]

(* DocxToHTML(r, size) of package docx, part_000 lines 47-53. *)
docx_DocxToHTML ==
    /\ pc = "call"
    /\ pc' = IF doc.ReadErr THEN "error" ELSE "returned"
    /\ out' = Append(out, DocxResult("docx.DocxToHTML"))
    /\ UNCHANGED <<wb, si, ri, maxCols, mergeMaster, skipCells, rs, model, renders, doc, DebugHTML, calls>>

(* DOCXToHTML(r, size), part_000 lines 298-304. *)
DOCXToHTML ==
    /\ pc = "call"
    /\ pc' = IF doc.ReadErr THEN "error" ELSE "returned"
    /\ out' = Append(out, DocxResult("docx.DOCXToHTML"))
    /\ UNCHANGED <<wb, si, ri, maxCols, mergeMaster, skipCells, rs, model, renders, doc, DebugHTML, calls>>

-----------------------------------------------------------------------------
(* Concurrent calls of the renderer of package xlsx, src/unnamed/part_001. *)
(* DebugHTML (line 12) is a variable of the package: a caller that wants   *)
(* the debug attributes assigns it before the call, as the tests do        *)
(* (src/docx/parse.go lines 129, 151, 174), and RenderWorkbookHTML reads   *)
(* it for every run and every cell (lines 299, 316) without a lock.  Each  *)
(* element of calls is one goroutine: [debug, pc, cells, tds], its own     *)
(* setting, its position, the cells of its IR and the <td> elements it has *)
(* written.  The specifications of one call keep DebugHTML at its zero     *)
(* value.                                                                  *)

(* The caller's assignment to DebugHTML before its call. *)
SetDebugHTML(c) ==
    /\ calls[c].pc = "start"
    /\ DebugHTML' = calls[c].debug
    /\ calls' = [calls EXCEPT ![c].pc = "render"]
    /\ UNCHANGED <<wb, pc, si, ri, maxCols, mergeMaster, skipCells, rs, model, renders, doc, out>>

(* Lines 290-320 with DebugHTML = flag: the <td> of one cell. *)
DebugCellHTML(cell, flag) ==
    [dataCell |-> <<EscapeString(cell.Ref[1]), cell.Ref[2]>>,
     spans |-> [i \in DOMAIN cell.Runs |->
                   [style |-> runToInlineCSS(cell.Runs[i]),
                    data_run_style |-> IF flag THEN Some(cell.Runs[i]) ELSE Nil,
                    text |-> BreakLines(EscapeString(cell.Runs[i].Text))]],
     text |-> IF Len(cell.Runs) > 0 THEN EmptyStr ELSE BreakLines(EscapeString(cell.Value)),
     data_style |-> IF flag THEN Some(cell.Style) ELSE Nil]

(* One pass of the cell loop of RenderWorkbookHTML in goroutine c. *)
RenderCellStep(c) ==
    /\ calls[c].pc = "render"
    /\ Len(calls[c].tds) < Len(calls[c].cells)
    /\ calls' = [calls EXCEPT ![c].tds =
                    Append(@, DebugCellHTML(calls[c].cells[Len(calls[c].tds) + 1], DebugHTML))]
    /\ UNCHANGED <<wb, pc, si, ri, maxCols, mergeMaster, skipCells, rs, model, renders, doc, out,
                   DebugHTML>>

(* The return of RenderWorkbookHTML in goroutine c. *)
RenderReturn(c) ==
    /\ calls[c].pc = "render"
    /\ Len(calls[c].tds) = Len(calls[c].cells)
    /\ calls' = [calls EXCEPT ![c].pc = "done"]
    /\ UNCHANGED <<wb, pc, si, ri, maxCols, mergeMaster, skipCells, rs, model, renders, doc, out,
                   DebugHTML>>

-----------------------------------------------------------------------------
(* Input workbooks.                                                        *)

CustomHt == 30

SrcCell(colName, sAttr) ==
    [Column |-> colName, ColumnErr |-> FALSE, SAttr |-> sAttr, Value |-> <<"v">>, Rich |-> Nil]

SrcRow(n, hidden, customHeight, cells) ==
    [RowNumber |-> n, Hidden |-> hidden,
     CustomHeightAttr |-> IF customHeight THEN Some(TRUE) ELSE Nil,
     HtAttr |-> IF customHeight THEN CustomHt ELSE 0,
     Cells |-> cells]

SrcSheet(name, rows, merges) ==
    [Name |-> name, Rows |-> rows, MergeCells |-> merges, Cols |-> <<>>, Tables |-> <<>>]

Workbook(sheets, themes) ==
    [ReadErr |-> FALSE, Sheets |-> sheets, StyleSheet |-> StyleSheetA, Themes |-> themes]

(* The outcome of reference.ParseRangeReference on a RefAttr: RowIdx is   *)
(* one-based, ColumnIdx zero-based.                                       *)
RangeRef(fromRow, fromCol, toRow, toCol) ==
    [err |-> FALSE, from |-> [RowIdx |-> fromRow, ColumnIdx |-> fromCol],
     to |-> [RowIdx |-> toRow, ColumnIdx |-> toCol]]

BadRef == [err |-> TRUE, from |-> [RowIdx |-> 0, ColumnIdx |-> 0],
           to |-> [RowIdx |-> 0, ColumnIdx |-> 0]]

A1B2 == RangeRef(1, 0, 2, 1)
A1B1 == RangeRef(1, 0, 1, 1)
A1A2 == RangeRef(1, 0, 2, 0)
B1B2 == RangeRef(1, 1, 2, 1)
A2B3 == RangeRef(2, 0, 3, 1)
B2A1 == RangeRef(2, 1, 1, 0)

MergeRefs == {A1B2, A1B1, A1A2, B1B2, A2B3, B2A1, BadRef}

(* The cells of a source row: any of the columns A, B, without style. *)
CellLayouts ==
    {<<>>, <<SrcCell(<<"A">>, Nil)>>, <<SrcCell(<<"B">>, Nil)>>,
     <<SrcCell(<<"A">>, Nil), SrcCell(<<"B">>, Nil)>>}

(* No DOCX document: the call converts a workbook. *)
NoDocument == [ReadErr |-> TRUE, Xml |-> <<>>, Body |-> Nil]

InitCall ==
    /\ pc = "sheet"
    /\ si = 1
    /\ ri = 1
    /\ maxCols = 0
    /\ mergeMaster = {}
    /\ skipCells = {}
    /\ rs = [Name |-> EmptyStr, ColWidths |-> <<>>, ColHidden |-> <<>>, Rows |-> <<>>]
    /\ model = <<>>
    /\ renders = <<>>
    /\ doc = NoDocument
    /\ out = <<>>
    /\ DebugHTML = FALSE
    /\ calls = <<>>

(* Sheets whose rows arrive in any order, with gaps, hidden or not, with  *)
(* or without a custom height.                                            *)
RowAttrs ==
    {[Hidden |-> FALSE, Custom |-> FALSE, Cells |-> <<SrcCell(<<"A">>, Nil), SrcCell(<<"B">>, Nil)>>],
     [Hidden |-> TRUE, Custom |-> FALSE, Cells |-> <<SrcCell(<<"A">>, Nil)>>],
     [Hidden |-> FALSE, Custom |-> TRUE, Cells |-> <<SrcCell(<<"A">>, Nil), SrcCell(<<"B">>, Nil)>>],
     [Hidden |-> TRUE, Custom |-> TRUE, Cells |-> <<>>],
     [Hidden |-> FALSE, Custom |-> FALSE, Cells |-> <<SrcCell(<<"B">>, Nil)>>]}

RowSeqs ==
    UNION {{[i \in 1..k |-> SrcRow(ns[i], at[i].Hidden, at[i].Custom, at[i].Cells)] :
                ns \in Arrangements(1..MaxRowNum, k), at \in [1..k -> RowAttrs]} :
           k \in 0..MaxSrcRows}

RowsMergeChoices == {<<>>, <<A1B2>>}

InitRows ==
    /\ \E rows \in RowSeqs, merges \in RowsMergeChoices :
           wb = Workbook(<<SrcSheet(Sheet1, rows, merges)>>, <<Some(OfficeScheme)>>)
    /\ InitCall

(* Sheets with merge declarations: rows in ascending order, every row     *)
(* visible and of default height.                                         *)
RECURSIVE GridRows(_)
GridRows(n) ==
    IF n = 0 THEN {<<>>}
    ELSE LET before == GridRows(n - 1) IN
         before \cup {Append(rows, SrcRow(n, FALSE, FALSE, cells)) :
                          rows \in before, cells \in CellLayouts}

MaxMerges == 2

Init ==
    /\ \E rows \in GridRows(MaxRowNum), merges \in SeqsUpTo(MergeRefs, MaxMerges) :
           wb = Workbook(<<SrcSheet(Sheet1, rows, merges)>>, <<Some(OfficeScheme)>>)
    /\ InitCall

(* Workbooks of styled cells: the cells lie in one row, in one column or  *)
(* on one sheet each.                                                     *)
StyleChoices == {Nil, Some(0), Some(1), Some(2), Some(4)}

StyledRow(n, sAttrs) ==
    SrcRow(n, FALSE, FALSE, [i \in DOMAIN sAttrs |-> SrcCell(<<Letters[i]>>, sAttrs[i])])

StyledWorkbook(layout, sAttrs) ==
    CASE layout = "row" ->
             Workbook(<<SrcSheet(Sheet1, <<StyledRow(1, sAttrs)>>, <<>>)>>, <<Some(OfficeScheme)>>)
      [] layout = "column" ->
             Workbook(<<SrcSheet(Sheet1,
                                 [i \in DOMAIN sAttrs |-> StyledRow(i, <<sAttrs[i]>>)], <<>>)>>,
                      <<Some(OfficeScheme)>>)
      [] layout = "sheets" ->
             Workbook([i \in DOMAIN sAttrs |->
                          SrcSheet(Sheet1, <<StyledRow(1, <<sAttrs[i]>>)>>, <<>>)],
                      <<Some(OfficeScheme)>>)

InitStyle ==
    /\ \E layout \in {"row", "column", "sheets"}, sAttrs \in SeqsUpTo(StyleChoices, MaxStyledCells) :
           wb = StyledWorkbook(layout, sAttrs)
    /\ InitCall

(* Workbooks with any theme and cells of any style of the style table. *)
MaxColorCells == 2

AllStyleIds == {Some(i - 1) : i \in DOMAIN StyleSheetA.CellXfs}

InitColor ==
    /\ \E themes \in ThemeChoices, sAttrs \in SeqsUpTo(AllStyleIds, MaxColorCells) :
           wb = Workbook(<<SrcSheet(Sheet1, <<StyledRow(1, sAttrs)>>, <<>>)>>, themes)
    /\ InitCall

(* Workbooks of cells with rich text: the direct colors and the font name  *)
(* of style 1 and of the runs are any of a few strings, well formed or     *)
(* not; runs refer to the theme as well.                                   *)
MaxRichCells == 1

StyleSheetRgb(c, f) ==
    [StyleSheetA EXCEPT
       !.Fonts[2] = Font(<<[ValAttr |-> f]>>, <<[ValAttr |-> 14]>>, <<[RgbAttr |-> Some(c)]>>),
       !.Fills[2] = Fill(RgbColor(c)),
       !.Borders[2] = Border(Some([RgbAttr |-> Some(c)]))]

DirectLooks ==
    {<<RGB_112233, Arial>>, <<ARGB_FF112233, Arial>>, <<Hash_112233, Arial>>,
     <<CssBreakout, FontBreakout>>}

RunColorRgb(hex) == Some([RgbAttr |-> Some(hex), ThemeAttr |-> Nil])
RunColorTheme(idx) == Some([RgbAttr |-> Nil, ThemeAttr |-> Some(idx)])

RPr(rFont, color, bold) ==
    Some([RFont |-> rFont, Sz |-> Nil, Color |-> color, B |-> bold, I |-> FALSE,
          U |-> bold, Strike |-> FALSE, VertAlign |-> IF bold THEN Some("superscript") ELSE Nil])

RunEl(text, rPr) == [T |-> text, RPr |-> rPr]

RichChoices ==
    {Nil,
     Some([R |-> <<>>]),
     Some([R |-> <<RunEl(MarkupText, Nil)>>]),
     Some([R |-> <<RunEl(<<"x">>, RPr(Some([ValAttr |-> FontBreakout]), RunColorRgb(CssBreakout), TRUE))>>]),
     Some([R |-> <<RunEl(<<"x">>, RPr(Nil, RunColorRgb(ARGB_FF112233), FALSE))>>]),
     Some([R |-> <<RunEl(<<"x">>, RPr(Nil, RunColorRgb(Hash_112233), FALSE))>>]),
     Some([R |-> <<RunEl(<<"x">>, RPr(Nil, RunColorTheme(1), FALSE)),
                   RunEl(<<"y">>, RPr(Nil, RunColorTheme(4), TRUE))>>]),
     Some([R |-> <<RunEl(<<"x">>, RPr(Some([ValAttr |-> Arial]), RunColorTheme(12), FALSE))>>]),
     Some([R |-> <<RunEl(<<"x">>, RPr(Nil, RunColorTheme(6), FALSE))>>])}

RichStyleChoices == {Nil, Some(1), Some(3), Some(5)}

RichCells ==
    {[sAttr |-> a, rich |-> r, value |-> v] :
        a \in RichStyleChoices, r \in RichChoices, v \in {MarkupText}}

RichRow(n, cs) ==
    SrcRow(n, FALSE, FALSE,
           [i \in DOMAIN cs |->
               [SrcCell(<<Letters[i]>>, cs[i].sAttr) EXCEPT !.Rich = cs[i].rich,
                                                            !.Value = cs[i].value]])

InitRich ==
    /\ \E themes \in ThemeChoices, look \in DirectLooks, cs \in SeqsUpTo(RichCells, MaxRichCells) :
           wb = [Workbook(<<SrcSheet(MarkupText, <<RichRow(1, cs)>>, <<>>)>>, themes)
                     EXCEPT !.StyleSheet = StyleSheetRgb(look[1], look[2])]
    /\ InitCall

(* Sheets with a declared table range over column A: rows and columns are *)
(* zero-based, a color that is not set is the empty string.  No statement  *)
(* of ParseWorkbookModel reads the Tables of a sheet.                      *)
MaxBandRows == 3

TableBandRegion(startRow, endRow, startCol, endCol, header, stripe1, stripe2, stripeSize) ==
    [startRow |-> startRow, endRow |-> endRow, startCol |-> startCol, endCol |-> endCol,
     header |-> header, stripe1 |-> stripe1, stripe2 |-> stripe2, stripeSize |-> stripeSize]

BandStyleChoices == {Nil, Some(0), Some(1), Some(2)}

InitBand ==
    /\ \E sAttrs \in [1..MaxBandRows -> BandStyleChoices], stripe2 \in {EmptyStr, RGB_Stripe2},
          stripeSize \in 1..2 :
           wb = Workbook(
                    <<[SrcSheet(Sheet1, [n \in 1..MaxBandRows |-> StyledRow(n, <<sAttrs[n], Nil>>)], <<>>)
                          EXCEPT !.Tables =
                              <<TableBandRegion(0, MaxBandRows - 1, 0, 0, RGB_Header, RGB_Stripe1,
                                                stripe2, stripeSize)>>]>>,
                    <<Some(OfficeScheme)>>)
    /\ InitCall

(* Workbooks that can or cannot be read, whose cells carry style IDs past  *)
(* the end of the style table and a style whose font, fill and border      *)
(* indices are past the end of their tables.                               *)
MaxXfCells == 2

BadIndex == 9

StyleSheetXf ==
    [StyleSheetA EXCEPT
       !.CellXfs = Append(@, Xf(Some(BadIndex), Some(BadIndex), Some(BadIndex),
                                 Alignment("center", "top", Nil, Nil)))]

XfStyleChoices ==
    {Nil, Some(1), Some(Len(StyleSheetXf.CellXfs) - 1), Some(Len(StyleSheetXf.CellXfs)),
     Some(Len(StyleSheetXf.CellXfs) + BadIndex)}

InitXf ==
    /\ \E layout \in {"row", "column"}, sAttrs \in SeqsUpTo(XfStyleChoices, MaxXfCells),
          readErr \in BOOLEAN :
           wb = [StyledWorkbook(layout, sAttrs) EXCEPT !.StyleSheet = StyleSheetXf,
                                                       !.ReadErr = readErr]
    /\ InitCall

(* Input documents. *)

MaxDocElems == 2

Heading1 == <<"H", "e", "a", "d", "i", "n", "g", "1">>
NormalStyle == <<"N", "o", "r", "m", "a", "l">>

DocRun(text, bold, italic) == [Text |-> text, Bold |-> bold, Italic |-> italic]

DocPara(style, runs) == [Style |-> style, Runs |-> runs]

DocTable(cells) == [Rows |-> <<[Cells |-> cells]>>]

ParaChoices ==
    {DocPara(NormalStyle, <<>>),
     DocPara(Heading1, <<DocRun(<<"x">>, FALSE, FALSE)>>),
     DocPara(NormalStyle, <<DocRun(MarkupText, TRUE, FALSE)>>),
     DocPara(NormalStyle, <<DocRun(EmptyStr, FALSE, TRUE), DocRun(<<"x">>, FALSE, TRUE)>>),
     DocPara(Heading1, <<DocRun(MarkupText, FALSE, FALSE)>>)}

TableChoices ==
    {DocTable(<<[Paragraphs |-> <<DocPara(NormalStyle, <<DocRun(MarkupText, FALSE, FALSE)>>)>>]>>),
     DocTable(<<[Paragraphs |-> <<>>],
                [Paragraphs |-> <<DocPara(NormalStyle, <<DocRun(<<"x">>, TRUE, TRUE)>>)>>]>>)}

(* The top-level elements of <w:body>: paragraphs, tables and structured   *)
(* document tags.                                                          *)
BodyElements ==
    {[kind |-> "p", el |-> p] : p \in ParaChoices}
    \cup {[kind |-> "tbl", el |-> t] : t \in TableChoices}
    \cup {[kind |-> "sdt", el |-> <<>>]}

(* document.Read on a body: every top-level element of the body gets a     *)
(* block-level element with one content block of its own, in the order of  *)
(* the file.                                                               *)
ReadBody(els) ==
    [i \in DOMAIN els |->
        [P |-> IF els[i].kind = "p" THEN <<els[i].el>> ELSE <<>>,
         Tbl |-> IF els[i].kind = "tbl" THEN <<els[i].el>> ELSE <<>>]]

(* The documents: one that cannot be read, one without a body, and the     *)
(* bodies of up to MaxDocElems elements.  Xml is the body as the file has  *)
(* it, Body what the converters get.                                       *)
Documents ==
    {NoDocument, [ReadErr |-> FALSE, Xml |-> <<>>, Body |-> Nil]}
    \cup {[ReadErr |-> FALSE, Xml |-> els, Body |-> Some(ReadBody(els))] :
             els \in SeqsUpTo(BodyElements, MaxDocElems)}

InitDocx ==
    /\ wb = [Workbook(<<>>, <<>>) EXCEPT !.ReadErr = TRUE]
    /\ pc = "call"
    /\ si = 1
    /\ ri = 1
    /\ maxCols = 0
    /\ mergeMaster = {}
    /\ skipCells = {}
    /\ rs = [Name |-> EmptyStr, ColWidths |-> <<>>, ColHidden |-> <<>>, Rows |-> <<>>]
    /\ model = <<>>
    /\ renders = <<>>
    /\ doc \in Documents
    /\ out = <<>>
    /\ DebugHTML = FALSE
    /\ calls = <<>>

(* Concurrent calls. *)

NumCalls == 2
MaxCallCells == 2

CallCell(i) ==
    [Ref |-> <<<<Letters[i]>>, 1>>, Value |-> <<"v">>,
     Runs |-> IF i = 1 THEN <<[ZeroRun EXCEPT !.Text = <<"x">>]>> ELSE <<>>,
     ColSpan |-> 1, RowSpan |-> 1, Style |-> ZeroStyle]

InitConc ==
    /\ wb = [Workbook(<<>>, <<>>) EXCEPT !.ReadErr = TRUE]
    /\ pc = "concurrent"
    /\ si = 1
    /\ ri = 1
    /\ maxCols = 0
    /\ mergeMaster = {}
    /\ skipCells = {}
    /\ rs = [Name |-> EmptyStr, ColWidths |-> <<>>, ColHidden |-> <<>>, Rows |-> <<>>]
    /\ model = <<>>
    /\ renders = <<>>
    /\ doc = NoDocument
    /\ out = <<>>
    /\ DebugHTML = FALSE
    /\ \E n \in 1..MaxCallCells :
           calls \in [1..NumCalls ->
                        {[debug |-> d, pc |-> "start", cells |-> [i \in 1..n |-> CallCell(i)],
                          tds |-> <<>>] : d \in BOOLEAN}]

(* Workbooks with every horizontal and vertical alignment the renderer    *)
(* maps.                                                                   *)

MaxAlignCells == 3

StyleSheetAlign ==
    [StyleSheetA EXCEPT
       !.CellXfs = << Xf(Some(0), Some(0), Some(0), Alignment("general", "", Nil, Nil)),
                      Xf(Some(0), Some(0), Some(0), Alignment("centerContinuous", "center", Nil, Nil)),
                      Xf(Some(0), Some(0), Some(0), Alignment("distributed", "top", Nil, Nil)),
                      Xf(Some(0), Some(0), Some(0), Alignment("left", "bottom", Nil, Nil)),
                      Xf(Some(0), Some(0), Some(0), Alignment("center", "center", Nil, Nil)),
                      Xf(Some(0), Some(0), Some(0), Alignment("right", "top", Nil, Nil)),
                      Xf(Some(0), Some(0), Some(0), Alignment("justify", "", Nil, Nil)) >>]

AlignChoices == {Some(x) : x \in 0..6}

InitAlign ==
    /\ \E sAttrs \in SeqsUpTo(AlignChoices, MaxAlignCells) :
           wb = [StyledWorkbook("row", sAttrs) EXCEPT !.StyleSheet = StyleSheetAlign]
    /\ InitCall

Next == BeginSheet \/ BuildRow \/ EndSheet \/ ParseReturn \/ Render

Spec == Init /\ [][Next]_vars
SpecRows == InitRows /\ [][Next]_vars
SpecStyle == InitStyle /\ [][Next]_vars
SpecColor == InitColor /\ [][Next]_vars
SpecRich == InitRich /\ [][Next]_vars
SpecBand == InitBand /\ [][Next]_vars
SpecAlign == InitAlign /\ [][Next]_vars

NextCall == ReadError \/ Next

(* Both converters of workbooks. *)
NextEntry == XlsxToHTML \/ Next
SpecEntry == InitRich /\ [][NextEntry]_vars
SpecXf == InitXf /\ [][NextCall]_vars

(* The converters of documents. *)
NextDocx == DocxToHTML \/ ParseDocument \/ docx_DocxToHTML \/ DOCXToHTML
SpecDocx == InitDocx /\ [][NextDocx]_vars

(* Goroutines that set DebugHTML and render, interleaved. *)
NextConc == \E c \in DOMAIN calls : SetDebugHTML(c) \/ RenderCellStep(c) \/ RenderReturn(c)
SpecConc == InitConc /\ [][NextConc]_vars

-----------------------------------------------------------------------------
(* Reading the documents and the IR in the statements below.  Rows and     *)
(* columns are zero-based, as in the merge map.                            *)

Parsed == pc = "parsed"

(* The cell pointer at (r, c) of a sheet of the IR: nil when the IR has no *)
(* such row or the row has no such position.                               *)
IRCell(sheetIR, r, c) ==
    IF r + 1 \in DOMAIN sheetIR.Rows /\ c + 1 \in DOMAIN sheetIR.Rows[r + 1].Cells
    THEN sheetIR.Rows[r + 1].Cells[c + 1]
    ELSE Nil

GoodRefs(sheet) == {mc \in Range(sheet.MergeCells) : ~mc.err}

RectOf(mc) ==
    {<<r, c>> : r \in (mc.from.RowIdx - 1)..(mc.to.RowIdx - 1),
                c \in mc.from.ColumnIdx..mc.to.ColumnIdx}

MasterOf(mc) == <<mc.from.RowIdx - 1, mc.from.ColumnIdx>>

RectHeight(mc) == mc.to.RowIdx - mc.from.RowIdx + 1
RectWidth(mc) == mc.to.ColumnIdx - mc.from.ColumnIdx + 1

(* The data model's invariant on merge declarations: every range has its  *)
(* end corner at or after its start corner, no range is declared twice and *)
(* no two ranges overlap.                                                  *)
MergesWellFormed(sheet) ==
    /\ \A k \in DOMAIN sheet.MergeCells :
           LET mc == sheet.MergeCells[k] IN
           ~mc.err => RectHeight(mc) >= 1 /\ RectWidth(mc) >= 1
    /\ \A k, l \in DOMAIN sheet.MergeCells :
           LET a == sheet.MergeCells[k]
               b == sheet.MergeCells[l]
           IN  (k # l /\ ~a.err /\ ~b.err) => RectOf(a) \cap RectOf(b) = {}

(* The source rows of a sheet that carry row number n. *)
RowsNumbered(sheet, n) == {k \in DOMAIN sheet.Rows : sheet.Rows[k].RowNumber = n}

(* The rectangle lies on rows the sheet has and on columns within the     *)
(* sheet's column count.                                                   *)
RectInGrid(sheet, mc) ==
    \A pos \in RectOf(mc) :
        /\ RowsNumbered(sheet, pos[1] + 1) # {}
        /\ pos[2] < MaxCellCount(sheet.Rows)

(* C1.  After the sheet is built, every merge range declared on it has     *)
(* exactly one cell of its rectangle in the IR: the top-left cell, as the  *)
(* master with RowSpan = the rectangle's height and ColSpan = its width;   *)
(* every other position of the rectangle holds no cell.  Stated for the    *)
(* sheets whose merge declarations are well formed and do not overlap,     *)
(* and for the rectangles that lie on rows and columns the sheet has.      *)
C1_OneMasterPerMerge ==
    Parsed =>
        \A i \in DOMAIN wb.Sheets :
            MergesWellFormed(wb.Sheets[i]) =>
                \A mc \in {x \in GoodRefs(wb.Sheets[i]) : RectInGrid(wb.Sheets[i], x)} :
                    LET master == IRCell(model[i], MasterOf(mc)[1], MasterOf(mc)[2]) IN
                    /\ ~IsNil(master)
                    /\ Deref(master).RowSpan = RectHeight(mc)
                    /\ Deref(master).ColSpan = RectWidth(mc)
                    /\ Deref(master).RowSpan * Deref(master).ColSpan = Cardinality(RectOf(mc))
                    /\ \A pos \in RectOf(mc) \ {MasterOf(mc)} :
                           IsNil(IRCell(model[i], pos[1], pos[2]))

(* The positions of a sheet of the IR that a merged cell other than the    *)
(* one at that position covers.                                            *)
CoveredBy(sheetIR, r0, c0) ==
    LET p == IRCell(sheetIR, r0, c0) IN
    IF IsNil(p) THEN {}
    ELSE {<<r, c>> : r \in r0..(r0 + Deref(p).RowSpan - 1),
                     c \in c0..(c0 + Deref(p).ColSpan - 1)} \ {<<r0, c0>>}

Covered(sheetIR) ==
    UNION {CoveredBy(sheetIR, r - 1, c - 1) :
               r \in DOMAIN sheetIR.Rows, c \in DOMAIN sheetIR.ColWidths}

(* C2.  In every rendered row no <td> is emitted at a position that the    *)
(* colspan of a master of the same row or the rowspan of a master of an    *)
(* earlier row covers, so the emitted cells and the covered positions of   *)
(* a row add up to the sheet's column count.  Stated for the sheets whose  *)
(* merge declarations are well formed and do not overlap.                  *)
C2_NoCellUnderSpan ==
    \A n \in DOMAIN renders :
        \A i \in DOMAIN model :
            MergesWellFormed(wb.Sheets[i]) =>
                \A r \in DOMAIN model[i].Rows :
                    LET tds == renders[n].sheets[i].trs[r].tds
                        covered == {pos \in Covered(model[i]) :
                                       pos[1] = r - 1 /\ pos[2] < Len(model[i].ColWidths)}
                    IN  /\ \A t \in DOMAIN tds : <<r - 1, tds[t].colIdx>> \notin covered
                        /\ Len(model[i].Rows[r].Cells) > 0 =>
                               Len(tds) + Cardinality(covered) = Len(model[i].ColWidths)

LargestRowNumber(sheet) ==
    IF sheet.Rows = <<>> THEN 0
    ELSE CHOOSE n \in {sheet.Rows[k].RowNumber : k \in DOMAIN sheet.Rows} :
             \A k \in DOMAIN sheet.Rows : sheet.Rows[k].RowNumber <= n

(* The non-master positions of the well-formed merge rectangles. *)
MergeCovered(sheet) == UNION {RectOf(mc) \ {MasterOf(mc)} : mc \in GoodRefs(sheet)}

(* The source cells of a row in column c (zero-based). *)
CellsInColumn(row, c) ==
    {k \in DOMAIN row.Cells : ColumnToIndex(row.Cells[k].Column) = c}

(* C3.  After ParseWorkbookModel has processed the source rows of a sheet, *)
(* in whatever order they arrived and with whatever gaps, the row numbered *)
(* r sits at index r-1 of Rows with that row's hidden flag, its height     *)
(* (custom height x 1.333, else 15pt x 1.333) and its cells (the cells a   *)
(* merge covers are dropped), and len(Rows) is the largest row number.     *)
(* The statement reads the rows by number only, so the result does not     *)
(* depend on the arrival order.                                            *)
C3_RowsByNumber ==
    Parsed =>
        \A i \in DOMAIN wb.Sheets :
            LET sheet == wb.Sheets[i]
                rows == model[i].Rows
            IN  /\ Len(rows) = LargestRowNumber(sheet)
                /\ \A k \in DOMAIN sheet.Rows :
                       LET row == sheet.Rows[k]
                           r == row.RowNumber
                       IN  /\ r \in DOMAIN rows
                           /\ rows[r].Hidden = row.Hidden
                           /\ rows[r].HeightPx =
                                  IF row.CustomHeightAttr = Some(TRUE)
                                  THEN row.HtAttr * 1333 ELSE 15 * 1333
                           /\ Len(rows[r].Cells) = Len(model[i].ColWidths)
                           /\ \A c \in 0..(Len(rows[r].Cells) - 1) :
                                  LET p == rows[r].Cells[c + 1]
                                      present == CellsInColumn(row, c) # {}
                                                 /\ <<r - 1, c>> \notin MergeCovered(sheet)
                                  IN  /\ present <=> ~IsNil(p)
                                      /\ ~IsNil(p) =>
                                             /\ Deref(p).Ref = <<<<Letters[c + 1]>>, r>>
                                             /\ Deref(p).Value \in
                                                    {row.Cells[x].Value : x \in CellsInColumn(row, c)}
                           /\ \A x \in DOMAIN row.Cells :
                                  <<r - 1, ColumnToIndex(row.Cells[x].Column)>> \notin MergeCovered(sheet)
                                  => ~IsNil(IRCell(model[i], r - 1, ColumnToIndex(row.Cells[x].Column)))

(* C3, witness: two rows arrived out of order, with a gap between their    *)
(* numbers, and the sheet was built.                                       *)
C3_Witness ==
    /\ Parsed
    /\ Len(wb.Sheets[1].Rows) = 2
    /\ wb.Sheets[1].Rows[1].RowNumber = 3
    /\ wb.Sheets[1].Rows[2].RowNumber = 1
    /\ wb.Sheets[1].Rows[1].Hidden
    /\ wb.Sheets[1].Rows[2].CustomHeightAttr = Some(TRUE)
    /\ Len(model[1].Rows) = 3
    /\ ~IsNil(IRCell(model[1], 2, 0))

(* C4.  Every row index below the largest row number that has no source    *)
(* row is a fully-empty row of the IR: one empty position per column of    *)
(* the sheet, not hidden, and of the default row height 15pt x 1.333.      *)
C4_GapRowsDefault ==
    Parsed =>
        \A i \in DOMAIN wb.Sheets :
            \A r \in DOMAIN model[i].Rows :
                RowsNumbered(wb.Sheets[i], r) = {} =>
                    /\ model[i].Rows[r].HeightPx = 15 * 1333
                    /\ ~model[i].Rows[r].Hidden
                    /\ Len(model[i].Rows[r].Cells) = Len(model[i].ColWidths)
                    /\ \A c \in DOMAIN model[i].Rows[r].Cells : IsNil(model[i].Rows[r].Cells[c])

-----------------------------------------------------------------------------
(* Reading a render: the CSS a cell ends up with, and the CSS its record   *)
(* stands for.                                                             *)

CssProps == DOMAIN EmptyCss

(* The declarations of the rule emitted for the class of st, if any. *)
ClassCssOf(R, st) ==
    LET cn == ClassOf(R.styleMap, st) IN
    IF \E rule \in R.rules : rule.className = cn
    THEN (CHOOSE rule \in R.rules : rule.className = cn).css
    ELSE EmptyCss

(* The cascade: a declaration of the class wins over the one of .table td. *)
Overlay(base, over) == [q \in CssProps |-> IF IsNil(over[q]) THEN base[q] ELSE over[q]]

(* white-space has the initial value normal when no rule declares it. *)
EffectiveCss(R, st) ==
    LET o == Overlay(R.tableTd, ClassCssOf(R, st)) IN
    [o EXCEPT !.white_space = IF IsNil(o.white_space) THEN Some("normal") ELSE o.white_space]

(* The CSS a resolved record stands for, property by property: a set      *)
(* property has its value, an unset property has none (the border has the *)
(* fallback colour).                                                      *)
RecordCss(st) ==
    LET right == st.HorizontalAlign # "" /\ TextAlign(st.HorizontalAlign) = "right" IN
    [font_family |-> IF st.FontFamily # EmptyStr
                     THEN Some(sanitizeFontFamily(st.FontFamily)) ELSE Nil,
     font_size |-> IF st.FontSizePt > 0 THEN Some(st.FontSizePt) ELSE Nil,
     color |-> SafeColor(st.FontColor),
     background_color |-> SafeColor(st.BackgroundColor),
     border |-> IF IsNil(SafeColor(st.BorderColor))
                THEN Some(BorderFallback) ELSE SafeColor(st.BorderColor),
     text_align |-> IF st.HorizontalAlign # "" THEN Some(TextAlign(st.HorizontalAlign)) ELSE Nil,
     vertical_align |-> IF st.VerticalAlign # "" THEN Some(VertAlign(st.VerticalAlign)) ELSE Nil,
     white_space |-> IF st.WrapText THEN Some("normal") ELSE Some("nowrap"),
     padding_left |-> IF st.IndentPx > 0 /\ ~right THEN Some(st.IndentPx) ELSE Nil,
     padding_right |-> IF st.IndentPx > 0 /\ right THEN Some(st.IndentPx) ELSE Nil]

(* C5.  Deduplication is lossless: for every render and every non-nil     *)
(* cell of the IR, the declarations of the cell's class laid over the     *)
(* declarations of .table td are, property by property, the cell's        *)
(* resolved record, the properties the record leaves unset included.      *)
C5_DedupLossless ==
    \A n \in DOMAIN renders :
        \A st \in Range(renders[n].styleList) : EffectiveCss(renders[n], st) = RecordCss(st)

(* C6.  Two runs of the deduplication of RenderWorkbookHTML on the same   *)
(* WorkbookModel give the same defaults, the same class names for the     *)
(* same records and the same class order.                                 *)
C6_DedupDeterministic ==
    \A n1, n2 \in DOMAIN renders :
        /\ renders[n1].defaults = renders[n2].defaults
        /\ renders[n1].styleMap = renders[n2].styleMap
        /\ renders[n1].styleList = renders[n2].styleList

(* The tallies the statements on defaults are about, counted on the       *)
(* non-nil cells of the IR.                                                *)
MajorityProps ==
    {"FontFamily", "FontSizePt", "FontColor", "BackgroundColor", "BorderColor",
     "HorizontalAlign", "VerticalAlign"}

(* The cells that carry value v of property prop. *)
Occurrences(cells, prop, v) ==
    Cardinality({i \in DOMAIN cells : cells[i].Style[prop] = v})

(* The values of a property that some cell sets. *)
SetValues(cells, prop) ==
    {cells[i].Style[prop] : i \in DOMAIN cells} \ {ZeroStyle[prop]}

(* The cells with at least one property set. *)
CellsWithStyle(cells) == Cardinality({i \in DOMAIN cells : cells[i].Style # ZeroStyle})

RuleOf(R, i) == {rule \in R.rules : rule.className = i}

(* The CSS properties a record property shows as. *)
CssOfProp(prop) ==
    CASE prop = "FontFamily" -> {"font_family"}
      [] prop = "FontSizePt" -> {"font_size"}
      [] prop = "FontColor" -> {"color"}
      [] prop = "BackgroundColor" -> {"background_color"}
      [] prop = "BorderColor" -> {"border"}
      [] prop = "HorizontalAlign" -> {"text_align"}
      [] prop = "VerticalAlign" -> {"vertical_align"}
      [] prop = "WrapText" -> {"white_space"}
      [] prop = "IndentPx" -> {"padding_left", "padding_right"}

StyleProps == MajorityProps \cup {"WrapText", "IndentPx"}

(* A record value that CSS can show: a color has to be hexadecimal. *)
Showable(prop, v) ==
    prop \in {"FontColor", "BackgroundColor", "BorderColor"} /\ v # EmptyStr
        => sanitizeColor(v) # EmptyStr

(* C8.  For every render and every distinct record, the declarations of  *)
(* the record's class are exactly the properties whose value differs      *)
(* from the computed default (stated for the values CSS can show); a      *)
(* value that is the default is declared by no class; a record with no    *)
(* differing property has no rule.                                        *)
C8_ClassIsDiff ==
    \A n \in DOMAIN renders :
        LET R == renders[n] IN
        \A i \in DOMAIN R.styleList :
            LET st == R.styleList[i]
                css == ClassCssOf(R, st)
                differing == {prop \in StyleProps : st[prop] # R.defaults[prop]}
            IN  /\ \A prop \in StyleProps :
                       Showable(prop, st[prop]) =>
                           (prop \in differing <=> \E q \in CssOfProp(prop) : ~IsNil(css[q]))
                /\ differing = {} <=> RuleOf(R, ClassOf(R.styleMap, st)) = {}

(* The first cell, in the traversal by sheet, row and column, that        *)
(* carries record st.                                                      *)
FirstSeen(cells, st) ==
    CHOOSE i \in DOMAIN cells :
        cells[i].Style = st /\ \A j \in 1..(i - 1) : cells[j].Style # st

(* C9.  In every render the classes are the distinct records of the       *)
(* non-nil cells in first-seen order of the traversal by sheet, row and   *)
(* column, named 1, 2, 3, ... without gap or reuse; every emitted cell    *)
(* carries the name of its own record, so two cells share a name exactly  *)
(* when their records are equal; and the rule emitted under a name holds  *)
(* the declarations of the record of that name.                           *)
C9_ClassesFirstSeen ==
    renders # <<>> =>
        LET cells == ModelCells(model) IN
        \A n \in DOMAIN renders :
            LET R == renders[n]
                list == R.styleList
            IN  /\ Range(list) = {cells[i].Style : i \in DOMAIN cells}
                /\ \A i, j \in DOMAIN list :
                       i < j => FirstSeen(cells, list[i]) < FirstSeen(cells, list[j])
                /\ R.styleMap = {[st |-> list[i], className |-> i] : i \in DOMAIN list}
                /\ \A i \in DOMAIN model : \A r \in DOMAIN model[i].Rows :
                       \A t \in DOMAIN R.sheets[i].trs[r].tds :
                           LET td == R.sheets[i].trs[r].tds[t] IN
                           ~td.blank =>
                               /\ td.class \in DOMAIN list
                               /\ list[td.class]
                                      = Deref(model[i].Rows[r].Cells[td.colIdx + 1]).Style
                /\ \A rule \in R.rules :
                       /\ rule.className \in DOMAIN list
                       /\ rule.css = styleToCSSDiff(list[rule.className], R.defaults)
                /\ \A i \in DOMAIN list : Cardinality(RuleOf(R, i)) <= 1

(* C9, witness: a render of three cells on more than one sheet, the first *)
(* and the third with the same record, the second with another one, and a *)
(* rule emitted for each of the two classes.                              *)
C9_Witness ==
    /\ Len(renders) > 0
    /\ Len(model) = 3
    /\ Len(renders[1].styleList) = 2
    /\ renders[1].styledCells = 3
    /\ LET cells == ModelCells(model) IN
       cells[1].Style = cells[3].Style /\ cells[1].Style # cells[2].Style
    /\ RuleOf(renders[1], 1) # {} /\ RuleOf(renders[1], 2) # {}
    /\ renders[1].sheets[3].trs[1].tds[1].class = 1

(* The palette slots in the order of the theme index. *)
SlotNames ==
    <<"Dk1", "Lt1", "Dk2", "Lt2", "Accent1", "Accent2", "Accent3", "Accent4",
      "Accent5", "Accent6", "Hlink", "FolHlink">>

(* The base RGB value a palette slot holds, if it holds one: its sRGB     *)
(* value, else the last computed value of its system color.               *)
PaletteBase(themes, idx) ==
    IF Len(themes) = 0 \/ IsNil(themes[1]) \/ idx + 1 \notin DOMAIN SlotNames THEN Nil
    ELSE LET clr == Deref(themes[1])[SlotNames[idx + 1]] IN
         IF IsNil(clr) THEN Nil
         ELSE IF ~IsNil(Deref(clr).SrgbClr) /\ Deref(Deref(clr).SrgbClr).ValAttr # EmptyStr
              THEN Some(Deref(Deref(clr).SrgbClr).ValAttr)
              ELSE IF ~IsNil(Deref(clr).SysClr) /\ ~IsNil(Deref(Deref(clr).SysClr).LastClrAttr)
                   THEN Some(Deref(Deref(Deref(clr).SysClr).LastClrAttr))
                   ELSE Nil

(* The theme color reference of the fill of style ID sAttr, when the fill *)
(* has one: [idx, tint].                                                  *)
ThemeFillOf(ss, sAttr) ==
    IF IsNil(sAttr) \/ Deref(sAttr) + 1 \notin DOMAIN ss.CellXfs THEN Nil
    ELSE LET xf == ss.CellXfs[Deref(sAttr) + 1] IN
         IF IsNil(xf.FillIdAttr) \/ Deref(xf.FillIdAttr) + 1 \notin DOMAIN ss.Fills THEN Nil
         ELSE LET pf == ss.Fills[Deref(xf.FillIdAttr) + 1].PatternFill IN
              IF IsNil(pf) \/ IsNil(Deref(pf).FgColor) THEN Nil
              ELSE LET fg == Deref(Deref(pf).FgColor) IN
                   IF IsNil(fg.RgbAttr) /\ ~IsNil(fg.ThemeAttr)
                   THEN Some([idx |-> Deref(fg.ThemeAttr), tint |-> fg.TintAttr])
                   ELSE Nil

-----------------------------------------------------------------------------
(* Tint arithmetic on a six-digit color, as the color contract states it.  *)
(* Tints are in percent.                                                   *)

HexSeq == <<"0", "1", "2", "3", "4", "5", "6", "7", "8", "9", "A", "B", "C", "D", "E", "F">>

HexDigitValue(ch) ==
    IF \E i \in DOMAIN HexSeq : HexSeq[i] = ch
    THEN (CHOOSE i \in DOMAIN HexSeq : HexSeq[i] = ch) - 1
    ELSE CASE ch = "a" -> 10 [] ch = "b" -> 11 [] ch = "c" -> 12
           [] ch = "d" -> 13 [] ch = "e" -> 14 [] OTHER -> 15

(* Channel k (1 = red, 2 = green, 3 = blue) of a six-digit color. *)
ChannelOf(hex, k) == 16 * HexDigitValue(hex[2 * k - 1]) + HexDigitValue(hex[2 * k])

HexPair(n) == <<HexSeq[(n \div 16) + 1], HexSeq[(n % 16) + 1]>>

(* round(channel * (1 + tint)) for tint < 0, round(channel + (255 -        *)
(* channel) * tint) for tint >= 0.                                         *)
TintChannel(c, tint) ==
    IF tint < 0 THEN (c * (100 + tint) + 50) \div 100
    ELSE (c * 100 + (255 - c) * tint + 50) \div 100

Tinted(hex, tint) ==
    HexPair(TintChannel(ChannelOf(hex, 1), tint))
        \o HexPair(TintChannel(ChannelOf(hex, 2), tint))
        \o HexPair(TintChannel(ChannelOf(hex, 3), tint))

IsHex6(str) == Len(str) = 6 /\ \A i \in DOMAIN str : str[i] \in HexDigits

(* C11.  For every cell whose fill refers to a palette slot that holds a  *)
(* base color, with any tint in [-1, 1], the resolved background is the   *)
(* base color with the tint applied to each channel (tint < 0:            *)
(* round(channel*(1+tint)); tint >= 0: round(channel+(255-channel)*tint)) *)
(* and every resolved channel lies in 0..255.                             *)
C11_TintApplied ==
    Parsed =>
        \A i \in DOMAIN wb.Sheets : \A k \in DOMAIN wb.Sheets[i].Rows :
            LET row == wb.Sheets[i].Rows[k] IN
            \A x \in DOMAIN row.Cells :
                LET ref == ThemeFillOf(wb.StyleSheet, row.Cells[x].SAttr)
                    p == IRCell(model[i], row.RowNumber - 1, ColumnToIndex(row.Cells[x].Column))
                IN  (/\ ~IsNil(ref)
                     /\ Deref(ref).tint \in -100..100
                     /\ ~IsNil(PaletteBase(wb.Themes, Deref(ref).idx))
                     /\ IsHex6(Deref(PaletteBase(wb.Themes, Deref(ref).idx))))
                    => /\ ~IsNil(p)
                       /\ IsHex6(Deref(p).Style.BackgroundColor)
                       /\ \A ch \in 1..3 : ChannelOf(Deref(p).Style.BackgroundColor, ch) \in 0..255
                       /\ Deref(p).Style.BackgroundColor
                              = Tinted(Deref(PaletteBase(wb.Themes, Deref(ref).idx)), Deref(ref).tint)

-----------------------------------------------------------------------------
(* C20.  Once the merge declarations of a sheet are processed, the merge   *)
(* map and the skip set are the ones the parsable declarations give: a     *)
(* declaration whose range reference cannot be parsed adds no master and   *)
(* no skipped position, processing reaches the rows of the sheet, and      *)
(* every parsable declaration has its master in the merge map and its      *)
(* other positions in the skip set.                                        *)
C20_BadMergeIgnored ==
    (pc = "rows") =>
        LET good == GoodRefs(CurSheet) IN
        /\ {m.pos : m \in mergeMaster} = {MasterOf(mc) : mc \in good}
        /\ \A m \in mergeMaster :
               \E mc \in good : /\ MasterOf(mc) = m.pos
                                /\ m.rowSpan = RectHeight(mc)
                                /\ m.colSpan = RectWidth(mc)
        /\ skipCells = UNION {RectOf(mc) \ {MasterOf(mc)} : mc \in good}

(* A sheet with an unparsable declaration followed by a parsable one, the  *)
(* latter applied.                                                         *)
C20_Witness ==
    /\ pc = "rows"
    /\ Len(CurSheet.MergeCells) = 2
    /\ CurSheet.MergeCells[1].err
    /\ CurSheet.MergeCells[2] = A1B2
    /\ skipCells = {<<0, 1>>, <<1, 0>>, <<1, 1>>}
    /\ \E m \in mergeMaster : m.pos = <<0, 0>> /\ m.rowSpan = 2 /\ m.colSpan = 2

-----------------------------------------------------------------------------
(* The rich-text runs of a source cell, and the theme index a run's color  *)
(* refers to, when it refers to the theme.                                 *)
SrcRuns(cell) == IF IsNil(cell.Rich) THEN <<>> ELSE Deref(cell.Rich).R

RunThemeOf(r) ==
    IF IsNil(r.RPr) \/ IsNil(Deref(r.RPr).Color) THEN Nil
    ELSE LET c == Deref(Deref(r.RPr).Color) IN
         IF IsNil(c.RgbAttr) /\ ~IsNil(c.ThemeAttr) THEN c.ThemeAttr ELSE Nil

(* The font name of style ID sAttr, empty when the style has no font or    *)
(* the font no name.                                                       *)
FontNameOf(ss, sAttr) ==
    IF IsNil(sAttr) \/ Deref(sAttr) + 1 \notin DOMAIN ss.CellXfs THEN EmptyStr
    ELSE LET xf == ss.CellXfs[Deref(sAttr) + 1] IN
         IF IsNil(xf.FontIdAttr) \/ Deref(xf.FontIdAttr) + 1 \notin DOMAIN ss.Fonts THEN EmptyStr
         ELSE LET names == ss.Fonts[Deref(xf.FontIdAttr) + 1].Name IN
              IF Len(names) = 0 THEN EmptyStr ELSE names[1].ValAttr

(* The largest theme index looked at: two past the last palette slot. *)
MaxThemeIdx == 13

(* C13.  Theme resolution fails softly.  For an index outside 0..11, a     *)
(* workbook without theme or a palette slot without usable color,          *)
(* ThemeColorToRGB reports unresolved; a cell whose fill, or a run whose    *)
(* color, refers to such an index keeps that property unset while its      *)
(* other properties are converted; parsing never stops, and every cell and *)
(* every run of the workbook is in the IR.                                 *)
C13_ThemeFailsSoftly ==
    /\ pc # "panic"
    /\ \A idx \in 0..MaxThemeIdx :
           IsNil(PaletteBase(wb.Themes, idx)) => ThemeColorToRGB(wb, idx) = [hex |-> EmptyStr, ok |-> FALSE]
    /\ Parsed =>
           \A i \in DOMAIN wb.Sheets : \A k \in DOMAIN wb.Sheets[i].Rows :
               LET row == wb.Sheets[i].Rows[k] IN
               \A x \in DOMAIN row.Cells :
                   LET cell == row.Cells[x]
                       ref == ThemeFillOf(wb.StyleSheet, cell.SAttr)
                       p == IRCell(model[i], row.RowNumber - 1, ColumnToIndex(cell.Column))
                   IN  /\ ~IsNil(p)
                       /\ Deref(p).Value = cell.Value
                       /\ (~IsNil(ref) /\ IsNil(PaletteBase(wb.Themes, Deref(ref).idx)))
                              => /\ Deref(p).Style.BackgroundColor = EmptyStr
                                 /\ Deref(p).Style.FontFamily = FontNameOf(wb.StyleSheet, cell.SAttr)
                       /\ Len(Deref(p).Runs) = Len(SrcRuns(cell))
                       /\ \A j \in DOMAIN SrcRuns(cell) :
                              LET r == SrcRuns(cell)[j]
                                  t == RunThemeOf(r)
                              IN  /\ Deref(p).Runs[j].Text = r.T
                                  /\ (~IsNil(t) /\ IsNil(PaletteBase(wb.Themes, Deref(t))))
                                         => /\ Deref(p).Runs[j].FontColor = EmptyStr
                                            /\ Deref(p).Runs[j].FontFamily
                                                   = IF IsNil(Deref(r.RPr).RFont) THEN EmptyStr
                                                     ELSE Deref(Deref(r.RPr).RFont).ValAttr

(* C13, witness: with the office theme, a cell whose fill refers to theme  *)
(* index 12 and whose run refers to theme index 12 as well is in the IR    *)
(* without background and without run color, the run keeping its font.     *)
C13_Witness ==
    /\ Parsed
    /\ wb.Themes = <<Some(OfficeScheme)>>
    /\ Len(wb.Sheets[1].Rows[1].Cells) = 1
    /\ ThemeFillOf(wb.StyleSheet, wb.Sheets[1].Rows[1].Cells[1].SAttr) = Some([idx |-> 12, tint |-> 0])
    /\ Len(SrcRuns(wb.Sheets[1].Rows[1].Cells[1])) = 1
    /\ RunThemeOf(SrcRuns(wb.Sheets[1].Rows[1].Cells[1])[1]) = Some(12)
    /\ Deref(IRCell(model[1], 0, 0)).Style.BackgroundColor = EmptyStr
    /\ Deref(IRCell(model[1], 0, 0)).Runs[1].FontColor = EmptyStr
    /\ Deref(IRCell(model[1], 0, 0)).Runs[1].FontFamily = Arial

-----------------------------------------------------------------------------
(* The direct RGB values of the font, the fill and the left border of      *)
(* style ID sAttr, and of a run: Nil where the style has none.             *)
XfOf(ss, sAttr) ==
    IF IsNil(sAttr) \/ Deref(sAttr) + 1 \notin DOMAIN ss.CellXfs THEN Nil
    ELSE Some(ss.CellXfs[Deref(sAttr) + 1])

FontRgbOf(ss, sAttr) ==
    LET xf == XfOf(ss, sAttr) IN
    IF IsNil(xf) \/ IsNil(Deref(xf).FontIdAttr)
       \/ Deref(Deref(xf).FontIdAttr) + 1 \notin DOMAIN ss.Fonts THEN Nil
    ELSE LET colors == ss.Fonts[Deref(Deref(xf).FontIdAttr) + 1].Color IN
         IF Len(colors) = 0 THEN Nil ELSE colors[1].RgbAttr

FillRgbOf(ss, sAttr) ==
    LET xf == XfOf(ss, sAttr) IN
    IF IsNil(xf) \/ IsNil(Deref(xf).FillIdAttr)
       \/ Deref(Deref(xf).FillIdAttr) + 1 \notin DOMAIN ss.Fills THEN Nil
    ELSE LET pf == ss.Fills[Deref(Deref(xf).FillIdAttr) + 1].PatternFill IN
         IF IsNil(pf) \/ IsNil(Deref(pf).FgColor) THEN Nil
         ELSE Deref(Deref(pf).FgColor).RgbAttr

BorderRgbOf(ss, sAttr) ==
    LET xf == XfOf(ss, sAttr) IN
    IF IsNil(xf) \/ IsNil(Deref(xf).BorderIdAttr)
       \/ Deref(Deref(xf).BorderIdAttr) + 1 \notin DOMAIN ss.Borders THEN Nil
    ELSE LET left == ss.Borders[Deref(Deref(xf).BorderIdAttr) + 1].Left IN
         IF IsNil(left) \/ IsNil(Deref(left).Color) THEN Nil
         ELSE Deref(Deref(left).Color).RgbAttr

RunRgbOf(r) ==
    IF IsNil(r.RPr) \/ IsNil(Deref(r.RPr).Color) THEN Nil
    ELSE Deref(Deref(r.RPr).Color).RgbAttr

(* The stored form of a direct color: an eight-character value without    *)
(* its first two characters, any other value as it is.                     *)
StoredRgb(v) == IF Len(v) = 8 THEN SubSeq(v, 3, 8) ELSE v

(* C12.  Every direct color of a parsed workbook is stored verbatim, an    *)
(* eight-digit ARGB value without its leading alpha pair: the font color,  *)
(* the background color and the border color of every cell, and the font   *)
(* color of every run.                                                     *)
C12_DirectColorStored ==
    Parsed =>
        \A i \in DOMAIN wb.Sheets : \A k \in DOMAIN wb.Sheets[i].Rows :
            LET row == wb.Sheets[i].Rows[k] IN
            \A x \in DOMAIN row.Cells :
                LET cell == row.Cells[x]
                    ss == wb.StyleSheet
                    p == IRCell(model[i], row.RowNumber - 1, ColumnToIndex(cell.Column))
                IN  ~IsNil(p) =>
                        /\ ~IsNil(FontRgbOf(ss, cell.SAttr)) =>
                               Deref(p).Style.FontColor = StoredRgb(Deref(FontRgbOf(ss, cell.SAttr)))
                        /\ ~IsNil(FillRgbOf(ss, cell.SAttr)) =>
                               Deref(p).Style.BackgroundColor = StoredRgb(Deref(FillRgbOf(ss, cell.SAttr)))
                        /\ ~IsNil(BorderRgbOf(ss, cell.SAttr)) =>
                               Deref(p).Style.BorderColor = StoredRgb(Deref(BorderRgbOf(ss, cell.SAttr)))
                        /\ \A j \in DOMAIN SrcRuns(cell) :
                               ~IsNil(RunRgbOf(SrcRuns(cell)[j])) =>
                                   Deref(p).Runs[j].FontColor = StoredRgb(Deref(RunRgbOf(SrcRuns(cell)[j])))

-----------------------------------------------------------------------------
(* An index attribute that is set and lies past the end of its table. *)
BadIndexOf(attr, table) == ~IsNil(attr) /\ Deref(attr) + 1 \notin DOMAIN table

(* C18.  A cell whose style ID is past the end of the style table, or      *)
(* whose style has a font, fill or border index past the end of its table, *)
(* is converted with the affected properties unset: parsing never panics,  *)
(* every cell of a parsed workbook is in the IR, such a cell without font  *)
(* family, colors and, for a missing style, alignment.                     *)
C18_BadStyleIndexSkipped ==
    /\ pc # "panic"
    /\ Parsed =>
           \A i \in DOMAIN wb.Sheets : \A k \in DOMAIN wb.Sheets[i].Rows :
               LET row == wb.Sheets[i].Rows[k] IN
               \A x \in DOMAIN row.Cells :
                   LET cell == row.Cells[x]
                       ss == wb.StyleSheet
                       p == IRCell(model[i], row.RowNumber - 1, ColumnToIndex(cell.Column))
                   IN  /\ ~IsNil(p)
                       /\ (~IsNil(cell.SAttr) /\ IsNil(XfOf(ss, cell.SAttr)))
                              => Deref(p).Style = ZeroStyle
                       /\ (~IsNil(XfOf(ss, cell.SAttr)) /\ BadIndexOf(Deref(XfOf(ss, cell.SAttr)).FontIdAttr, ss.Fonts))
                              => /\ Deref(p).Style.FontFamily = EmptyStr
                                 /\ Deref(p).Style.FontSizePt = 0
                                 /\ Deref(p).Style.FontColor = EmptyStr
                       /\ (~IsNil(XfOf(ss, cell.SAttr)) /\ BadIndexOf(Deref(XfOf(ss, cell.SAttr)).FillIdAttr, ss.Fills))
                              => Deref(p).Style.BackgroundColor = EmptyStr
                       /\ (~IsNil(XfOf(ss, cell.SAttr)) /\ BadIndexOf(Deref(XfOf(ss, cell.SAttr)).BorderIdAttr, ss.Borders))
                              => Deref(p).Style.BorderColor = EmptyStr

-----------------------------------------------------------------------------
(* C19.  A conversion call ends with an error exactly when the document    *)
(* cannot be read, and then with an empty result; for a readable document  *)
(* it ends without error, and its result is the markup of the whole        *)
(* workbook, which is never empty.  So the call never panics, an error     *)
(* return happens only for an unreadable workbook and leaves no model and  *)
(* no markup, and an unreadable workbook is never parsed or rendered.      *)
C19_ErrorIffUnreadable ==
    /\ pc # "panic"
    /\ (pc = "error") => (wb.ReadErr /\ model = <<>> /\ renders = <<>>)
    /\ wb.ReadErr => (pc \in {"sheet", "error"} /\ model = <<>> /\ renders = <<>>)
    /\ \A n \in DOMAIN renders :
           /\ ~wb.ReadErr
           /\ Len(renders[n].sheets) = Len(wb.Sheets)
           /\ ~IsNil(renders[n].tableTd.border)

-----------------------------------------------------------------------------
(* Table banding, as the banding contract states it.  The table ranges a   *)
(* cell lies in, the band color of a row of a range, and the background a  *)
(* style gives a cell on its own.                                          *)
InBand(t, r, c) == r \in t.startRow..t.endRow /\ c \in t.startCol..t.endCol

BandColor(t, r) ==
    IF r = t.startRow THEN t.header
    ELSE IF ((r - (t.startRow + 1)) \div t.stripeSize) % 2 = 0 THEN t.stripe1 ELSE t.stripe2

OwnBackground(w, sAttr) ==
    IF ~IsNil(FillRgbOf(w.StyleSheet, sAttr)) THEN StoredRgb(Deref(FillRgbOf(w.StyleSheet, sAttr)))
    ELSE LET ref == ThemeFillOf(w.StyleSheet, sAttr) IN
         IF ~IsNil(ref) /\ ~IsNil(PaletteBase(w.Themes, Deref(ref).idx))
         THEN Deref(PaletteBase(w.Themes, Deref(ref).idx))
         ELSE EmptyStr

(* C14.  A cell inside a declared table range that has no background of    *)
(* its own has the header color as its resolved background when its row is *)
(* the first row of the range, else stripe1 or stripe2 by the parity of    *)
(* floor((row - (startRow + 1)) / stripeSize).                             *)
C14_BandingApplied ==
    Parsed =>
        \A i \in DOMAIN wb.Sheets : \A k \in DOMAIN wb.Sheets[i].Rows :
            LET row == wb.Sheets[i].Rows[k] IN
            \A x \in DOMAIN row.Cells : \A n \in DOMAIN wb.Sheets[i].Tables :
                LET cell == row.Cells[x]
                    t == wb.Sheets[i].Tables[n]
                    r == row.RowNumber - 1
                    c == ColumnToIndex(cell.Column)
                    p == IRCell(model[i], r, c)
                IN  (InBand(t, r, c) /\ OwnBackground(wb, cell.SAttr) = EmptyStr)
                        => /\ ~IsNil(p)
                           /\ Deref(p).Style.BackgroundColor = BandColor(t, r)

(* C15.  A cell inside a declared table range that carries a background of *)
(* its own keeps it as its resolved background, in the header row and in   *)
(* every stripe row of the range; no band color replaces it.               *)
C15_OwnBackgroundWins ==
    Parsed =>
        \A i \in DOMAIN wb.Sheets : \A k \in DOMAIN wb.Sheets[i].Rows :
            LET row == wb.Sheets[i].Rows[k] IN
            \A x \in DOMAIN row.Cells : \A n \in DOMAIN wb.Sheets[i].Tables :
                LET cell == row.Cells[x]
                    t == wb.Sheets[i].Tables[n]
                    r == row.RowNumber - 1
                    c == ColumnToIndex(cell.Column)
                    p == IRCell(model[i], r, c)
                IN  (InBand(t, r, c) /\ OwnBackground(wb, cell.SAttr) # EmptyStr)
                        => /\ ~IsNil(p)
                           /\ Deref(p).Style.BackgroundColor = OwnBackground(wb, cell.SAttr)
                           /\ Deref(p).Style.BackgroundColor # EmptyStr

(* C15, witness: the header row and a stripe row of the table range hold   *)
(* cells with a fill of their own, a direct color and a theme color, whose *)
(* backgrounds are those colors and not the band colors.                   *)
C15_Witness ==
    /\ Parsed
    /\ wb.Sheets[1].Tables # <<>>
    /\ InBand(wb.Sheets[1].Tables[1], 0, 0) /\ InBand(wb.Sheets[1].Tables[1], 1, 0)
    /\ wb.Sheets[1].Rows[1].Cells[1].SAttr = Some(1)
    /\ wb.Sheets[1].Rows[2].Cells[1].SAttr = Some(2)
    /\ Deref(IRCell(model[1], 0, 0)).Style.BackgroundColor = SubSeq(ARGB_Yellow, 3, 8)
    /\ Deref(IRCell(model[1], 1, 0)).Style.BackgroundColor = RGB_Accent1
    /\ BandColor(wb.Sheets[1].Tables[1], 0) = RGB_Header
    /\ BandColor(wb.Sheets[1].Tables[1], 1) = RGB_Stripe1

-----------------------------------------------------------------------------
(* A pure hexadecimal string, and a font-family name of characters of      *)
(* [A-Za-z0-9 ,_-] only.                                                   *)
IsHexColor(c) == Len(c) > 0 /\ \A i \in DOMAIN c : c[i] \in HexDigits

IsSafeFontName(f) == \A i \in DOMAIN f : f[i] \in FontFamilySafeChars

(* The colors and the font-family names of a CSS block: the values of its  *)
(* properties that are set.                                                *)
CssColors(css, props) == {Deref(css[q]) : q \in {q \in props : ~IsNil(css[q])}}

(* The <td> elements of the markup a call of XlsxToHTML returned. *)
InlineTds(res) ==
    IF IsNil(res.html) THEN {}
    ELSE UNION {UNION {Range(Deref(res.html)[i].trs[k].tds) : k \in DOMAIN Deref(res.html)[i].trs} :
                   i \in DOMAIN Deref(res.html)}

(* The <span> elements of the runs in the markup of RenderWorkbookHTML. *)
RenderedSpans(r) ==
    UNION {UNION {UNION {Range(r.sheets[i].trs[k].tds[x].spans) : x \in DOMAIN r.sheets[i].trs[k].tds} :
                     k \in DOMAIN r.sheets[i].trs} :
              i \in DOMAIN r.sheets}

(* C16.  In the markup of every entry point, every color of the emitted    *)
(* CSS is a pure hexadecimal string and every font-family name has only    *)
(* characters of [A-Za-z0-9 ,_-]: in the defaults rule, in the class       *)
(* rules and in the inline styles of runs of RenderWorkbookHTML, and in    *)
(* the inline styles of the cells of XlsxToHTML.                           *)
C16_CssSanitized ==
    /\ \A n \in DOMAIN renders :
           LET r == renders[n] IN
           /\ \A c \in CssColors(r.tableTd, {"color", "background_color", "border"}) : IsHexColor(c)
           /\ \A f \in CssColors(r.tableTd, {"font_family"}) : IsSafeFontName(f)
           /\ \A rule \in r.rules :
                  /\ \A c \in CssColors(rule.css, {"color", "background_color", "border"}) : IsHexColor(c)
                  /\ \A f \in CssColors(rule.css, {"font_family"}) : IsSafeFontName(f)
           /\ \A sp \in RenderedSpans(r) :
                  /\ \A c \in CssColors(sp.style, {"color"}) : IsHexColor(c)
                  /\ \A f \in CssColors(sp.style, {"font_family"}) : IsSafeFontName(f)
    /\ \A n \in DOMAIN out :
           out[n].entry = "convert.XlsxToHTML" =>
               \A td \in InlineTds(out[n]) :
                   /\ \A c \in CssColors(td.style, {"color", "background_color", "border_left"}) :
                          IsHexColor(c)
                   /\ \A f \in CssColors(td.style, {"font_family"}) : IsSafeFontName(f)

(* The characters that are markup in HTML text and attribute values. *)
RawMarkup == {"<", ">", "&", "'", "\""}

NoRawMarkup(str) == \A i \in DOMAIN str : str[i] \notin RawMarkup

(* The texts in the markup of a call of RenderWorkbookHTML: sheet names,   *)
(* cell references, cell values and run texts.                             *)
RenderedTexts(r) ==
    {r.sheets[i].name : i \in DOMAIN r.sheets}
    \cup UNION {UNION {UNION {{r.sheets[i].trs[k].tds[x].text, r.sheets[i].trs[k].tds[x].dataCell[1]}
                              \cup {r.sheets[i].trs[k].tds[x].spans[y].text :
                                       y \in DOMAIN r.sheets[i].trs[k].tds[x].spans} :
                                 x \in DOMAIN r.sheets[i].trs[k].tds} :
                          k \in DOMAIN r.sheets[i].trs} :
                   i \in DOMAIN r.sheets}

(* The texts in the markup a call of XlsxToHTML returned. *)
InlineTexts(res) ==
    IF IsNil(res.html) THEN {}
    ELSE {Deref(res.html)[i].name : i \in DOMAIN Deref(res.html)}
         \cup {td.text : td \in InlineTds(res)}

(* The texts of the runs of a rendered paragraph of a document. *)
ParagraphTexts(p) == {p.spans[y].text : y \in DOMAIN p.spans}

(* The texts in the markup a converter of package docx returned. *)
DocumentTexts(res) ==
    IF IsNil(res.html) THEN {}
    ELSE UNION {IF Deref(res.html)[i].kind = "paragraph"
                THEN ParagraphTexts(Deref(res.html)[i].el)
                ELSE UNION {UNION {UNION {ParagraphTexts(Deref(res.html)[i].el.trs[r].tds[c].paras[k]) :
                                             k \in DOMAIN Deref(res.html)[i].el.trs[r].tds[c].paras} :
                                      c \in DOMAIN Deref(res.html)[i].el.trs[r].tds} :
                               r \in DOMAIN Deref(res.html)[i].el.trs} :
                   i \in DOMAIN Deref(res.html)}

(* The texts in the markup DocxToHTML of model.go returned. *)
LegacyTexts(res) ==
    IF IsNil(res.html) THEN {}
    ELSE UNION {{Deref(res.html)[i].runs[y].text : y \in DOMAIN Deref(res.html)[i].runs} :
                   i \in DOMAIN Deref(res.html)}

(* The texts in the markup of one returned call, by its entry point. *)
ResultTexts(res) ==
    CASE res.entry = "convert.XlsxToHTML" -> InlineTexts(res)
      [] res.entry = "convert.DocxToHTML" -> LegacyTexts(res)
      [] OTHER -> DocumentTexts(res)

(* C17.  On every conversion entry point, every text of the document in   *)
(* the markup (sheet names, cell references, cell values, run texts of     *)
(* cells and of paragraphs) is HTML-escaped: none of its characters is     *)
(* one of < > & ' ".                                                       *)
C17_TextEscaped ==
    /\ \A n \in DOMAIN renders : \A t \in RenderedTexts(renders[n]) : NoRawMarkup(t)
    /\ \A n \in DOMAIN out : \A t \in ResultTexts(out[n]) : NoRawMarkup(t)

(* The part of C17 on the converters that go through the IR and on         *)
(* XlsxToHTML.                                                             *)
TextEscapedButLegacy ==
    /\ \A n \in DOMAIN renders : \A t \in RenderedTexts(renders[n]) : NoRawMarkup(t)
    /\ \A n \in DOMAIN out :
           out[n].entry # "convert.DocxToHTML" => \A t \in ResultTexts(out[n]) : NoRawMarkup(t)

(* A converter of package docx returned markup that holds an escaped       *)
(* character.                                                              *)
EscapedDocumentText ==
    \E n \in DOMAIN out :
        /\ out[n].entry = "docx.DocxToHTML"
        /\ \E t \in DocumentTexts(out[n]) : \E i \in DOMAIN t : t[i] = "&lt;"

(* The top-level paragraphs and tables of a body, in the order of the      *)
(* file.                                                                   *)
TopLevel(els) == SelectSeq(els, LAMBDA e : e.kind \in {"p", "tbl"})

(* The block of the IR for a top-level paragraph or table. *)
BlockOf(e) ==
    IF e.kind = "p" THEN [Paragraph |-> Some(convertParagraph(e.el)), Table |-> Nil]
    ELSE [Paragraph |-> Nil, Table |-> Some(convertTable(e.el))]

(* The element of <body> for a top-level paragraph or table. *)
MarkupOf(e) ==
    IF e.kind = "p" THEN [kind |-> "paragraph", el |-> renderParagraphHTML(convertParagraph(e.el))]
    ELSE [kind |-> "table", el |-> renderTableHTML(convertTable(e.el))]

(* C21.  ParseDocumentModel emits one block per top-level paragraph or     *)
(* table of the body, in the order of the body (a table that precedes a    *)
(* paragraph has its block before the paragraph's block), and the          *)
(* converters of package docx render the blocks in that same order.        *)
C21_BlocksInDocumentOrder ==
    \A n \in DOMAIN out :
        LET tops == TopLevel(doc.Xml) IN
        /\ (out[n].entry = "docx.ParseDocumentModel" /\ ~out[n].err) =>
               out[n].mdl.Blocks = [i \in DOMAIN tops |-> BlockOf(tops[i])]
        /\ (out[n].entry \in {"docx.DocxToHTML", "docx.DOCXToHTML"} /\ ~out[n].err) =>
               Deref(out[n].html) = [i \in DOMAIN tops |-> MarkupOf(tops[i])]

(* A body with a table before a paragraph was parsed, and one was          *)
(* rendered.                                                               *)
C21_Witness ==
    /\ Len(doc.Xml) = 2
    /\ doc.Xml[1].kind = "tbl"
    /\ doc.Xml[2].kind = "p"
    /\ \E n \in DOMAIN out :
           \/ /\ out[n].entry = "docx.ParseDocumentModel"
              /\ Len(out[n].mdl.Blocks) = 2
              /\ ~IsNil(out[n].mdl.Blocks[1].Table)
           \/ /\ out[n].entry = "docx.DocxToHTML"
              /\ Len(Deref(out[n].html)) = 2
              /\ Deref(out[n].html)[1].kind = "table"

(* C24.  After ParseDocumentModel returns, every block of the model has    *)
(* exactly one of Paragraph and Table populated, never both and never      *)
(* neither.                                                                *)
C24_OneVariantPerBlock ==
    \A n \in DOMAIN out :
        out[n].entry = "docx.ParseDocumentModel" =>
            \A i \in DOMAIN out[n].mdl.Blocks :
                IsNil(out[n].mdl.Blocks[i].Paragraph) # IsNil(out[n].mdl.Blocks[i].Table)

(* A body with a structured document tag and a paragraph or table was      *)
(* parsed into a model with a block.                                       *)
C24_Witness ==
    /\ \E i \in DOMAIN doc.Xml : doc.Xml[i].kind = "sdt"
    /\ \E n \in DOMAIN out :
           /\ out[n].entry = "docx.ParseDocumentModel"
           /\ Len(out[n].mdl.Blocks) > 0

(* The renderer writes the runs of a cell that has runs, and the plain     *)
(* value of a cell that has none.                                          *)
RunsPreferred ==
    \A n \in DOMAIN renders : \A i \in DOMAIN renders[n].sheets :
        \A k \in DOMAIN renders[n].sheets[i].trs :
            \A x \in DOMAIN renders[n].sheets[i].trs[k].tds :
                LET td == renders[n].sheets[i].trs[k].tds[x] IN
                ~td.blank =>
                    LET c == Deref(IRCell(model[i], k - 1, td.colIdx)) IN
                    IF Len(c.Runs) > 0
                    THEN td.spans = RenderRunsHTML(c.Runs) /\ td.text = EmptyStr
                    ELSE td.spans = <<>> /\ td.text = BreakLines(EscapeString(c.Value))

(* C22.  For every cell of the IR, Runs and Value are mutually exclusive:  *)
(* a cell whose source holds rich text with runs has Runs populated and    *)
(* Value empty, any other cell has Value equal to the formatted text and   *)
(* no runs; and the renderer writes the runs whenever Runs is non-empty    *)
(* and the plain value otherwise.                                          *)
C22_RunsXorValue ==
    /\ Parsed =>
           \A i \in DOMAIN wb.Sheets : \A k \in DOMAIN wb.Sheets[i].Rows :
               LET row == wb.Sheets[i].Rows[k] IN
               \A x \in DOMAIN row.Cells :
                   LET cell == row.Cells[x]
                       p == IRCell(model[i], row.RowNumber - 1, ColumnToIndex(cell.Column))
                   IN  ~IsNil(p) =>
                           IF Len(SrcRuns(cell)) > 0
                           THEN /\ Len(Deref(p).Runs) = Len(SrcRuns(cell))
                                /\ Deref(p).Value = EmptyStr
                           ELSE /\ Deref(p).Runs = <<>>
                                /\ Deref(p).Value = cell.Value
    /\ RunsPreferred

(* The <td> elements of a call that depend on its own cells and its own    *)
(* debug setting only.                                                     *)
OwnOutput(call) == [i \in DOMAIN call.cells |-> DebugCellHTML(call.cells[i], call.debug)]

(* C23.  Concurrent calls share no mutable state: in every interleaving    *)
(* of the calls, the output of a call that has returned is the one its own *)
(* cells and its own debug setting give, whatever the other calls did.     *)
C23_NoSharedState ==
    \A c \in DOMAIN calls : calls[c].pc = "done" => calls[c].tds = OwnOutput(calls[c])

(* The calls that have the same debug setting as every other call have the *)
(* output their own inputs give.                                           *)
SameSettingSameOutput ==
    (\A c, d \in DOMAIN calls : calls[c].debug = calls[d].debug) => C23_NoSharedState

(* The alignment element of the style a cell names, nil when the cell has  *)
(* no style or the style has no alignment.                                 *)
AlignmentOf(ss, sAttr) ==
    IF IsNil(XfOf(ss, sAttr)) THEN Nil ELSE Deref(XfOf(ss, sAttr)).Alignment

(* The raw indent level of a cell's style, 0 when there is none. *)
IndentLevelOf(ss, sAttr) ==
    IF IsNil(AlignmentOf(ss, sAttr)) \/ IsNil(Deref(AlignmentOf(ss, sAttr)).IndentAttr) THEN 0
    ELSE Deref(Deref(AlignmentOf(ss, sAttr)).IndentAttr)

(* The indent of every cell of the IR is the raw level times 8px. *)
IndentStored ==
    Parsed =>
        \A i \in DOMAIN wb.Sheets : \A k \in DOMAIN wb.Sheets[i].Rows :
            LET row == wb.Sheets[i].Rows[k] IN
            \A x \in DOMAIN row.Cells :
                LET p == IRCell(model[i], row.RowNumber - 1, ColumnToIndex(row.Cells[x].Column)) IN
                ~IsNil(p) =>
                    Deref(p).Style.IndentPx = IndentLevelOf(wb.StyleSheet, row.Cells[x].SAttr) * 8

(* The padding a cell of record st has in render R, by the cascade of      *)
(* .table td and the cell's class, is on the right for a right-aligned     *)
(* record and on the left for any other.                                   *)
IndentOnSide(R, st) ==
    IF st.HorizontalAlign = "right"
    THEN /\ EffectiveCss(R, st).padding_right = Some(st.IndentPx)
         /\ IsNil(EffectiveCss(R, st).padding_left)
    ELSE /\ EffectiveCss(R, st).padding_left = Some(st.IndentPx)
         /\ IsNil(EffectiveCss(R, st).padding_right)

(* C25.  The indent is the raw level times 8px, and it is emitted as right *)
(* padding exactly when the cell's resolved horizontal alignment is right  *)
(* and as left padding otherwise, for every cell, also for one whose       *)
(* alignment is the document-wide default and so is left out of its class. *)
C25_IndentBySide ==
    /\ IndentStored
    /\ \A n \in DOMAIN renders :
           \A st \in Range(renders[n].styleList) :
               st.IndentPx > 0 => IndentOnSide(renders[n], st)

(* The same for the records whose alignment is not the document-wide       *)
(* default.                                                                *)
IndentBySideOffDefault ==
    \A n \in DOMAIN renders :
        \A st \in Range(renders[n].styleList) :
            (st.IndentPx > 0 /\ st.HorizontalAlign # renders[n].defaults.HorizontalAlign) =>
                IndentOnSide(renders[n], st)

(* The alignment mapping of the rendering contract. *)
MappedHorizontal(h) ==
    CASE h = "general" -> "left"
      [] h \in {"centerContinuous", "distributed"} -> "center"
      [] h \in {"left", "center", "right", "justify"} -> h

MappedVertical(v) ==
    CASE v \in {"", "bottom"} -> "bottom"
      [] v = "center" -> "middle"
      [] v = "top" -> "top"

(* C26.  For every cell whose style has an alignment, the horizontal       *)
(* alignment the cell has in the markup (from .table td or from its class) *)
(* is left for general, center for centerContinuous and distributed, and   *)
(* the value itself for left, center, right and justify; the vertical      *)
(* alignment is bottom for unset or bottom, middle for center and top for  *)
(* top; and the default written on .table td is mapped in the same way.    *)
C26_AlignmentMapped ==
    \A n \in DOMAIN renders :
        /\ \A i \in DOMAIN wb.Sheets : \A k \in DOMAIN wb.Sheets[i].Rows :
               LET row == wb.Sheets[i].Rows[k] IN
               \A x \in DOMAIN row.Cells :
                   LET al == AlignmentOf(wb.StyleSheet, row.Cells[x].SAttr)
                       p == IRCell(model[i], row.RowNumber - 1, ColumnToIndex(row.Cells[x].Column))
                   IN  (~IsNil(al) /\ ~IsNil(p)) =>
                           LET css == EffectiveCss(renders[n], Deref(p).Style) IN
                           /\ css.text_align = Some(MappedHorizontal(Deref(al).HorizontalAttr))
                           /\ css.vertical_align = Some(MappedVertical(Deref(al).VerticalAttr))
        /\ renders[n].defaults.HorizontalAlign # "" =>
               renders[n].tableTd.text_align =
                   Some(MappedHorizontal(renders[n].defaults.HorizontalAlign))

(* A render whose default alignment is general or centerContinuous, with   *)
(* a cell of another alignment in a class.                                 *)
C26_Witness ==
    \E n \in DOMAIN renders :
        /\ renders[n].defaults.HorizontalAlign \in {"general", "centerContinuous"}
        /\ \E st \in Range(renders[n].styleList) :
               /\ st.HorizontalAlign \in {"distributed", "justify"}
               /\ ~IsNil(ClassCssOf(renders[n], st).text_align)

(* Row r of sheet i of the IR has one position per column of the sheet,    *)
(* and nil where no source row of that number has a cell in the column.    *)
RowHasColumnCount(i, r) ==
    /\ Len(model[i].Rows[r].Cells) = MaxCellCount(wb.Sheets[i].Rows)
    /\ \A c \in DOMAIN model[i].Rows[r].Cells :
           (\A k \in RowsNumbered(wb.Sheets[i], r) :
                CellsInColumn(wb.Sheets[i].Rows[k], c - 1) = {})
           => IsNil(model[i].Rows[r].Cells[c])

(* C27.  For every sheet of the IR, the column count is the largest number *)
(* of physical cells of a row, ColWidths and ColHidden have that length,   *)
(* and the Cells of every row have that length, with nil at each position  *)
(* without a physical cell.                                                *)
C27_ColumnCount ==
    Parsed =>
        \A i \in DOMAIN wb.Sheets :
            /\ Len(model[i].ColWidths) = MaxCellCount(wb.Sheets[i].Rows)
            /\ Len(model[i].ColHidden) = MaxCellCount(wb.Sheets[i].Rows)
            /\ \A r \in DOMAIN model[i].Rows : RowHasColumnCount(i, r)

(* The same for the rows of the IR that have a source row. *)
ColumnCountOfSourceRows ==
    Parsed =>
        \A i \in DOMAIN wb.Sheets :
            /\ Len(model[i].ColWidths) = MaxCellCount(wb.Sheets[i].Rows)
            /\ Len(model[i].ColHidden) = MaxCellCount(wb.Sheets[i].Rows)
            /\ \A r \in DOMAIN model[i].Rows :
                   RowsNumbered(wb.Sheets[i], r) # {} => RowHasColumnCount(i, r)

(* C30.  For every physical cell ParseWorkbookModel places, the cell's     *)
(* zero-based column index is smaller than the length of its row's Cells,  *)
(* the column count of the sheet: the next row to build has no cell to     *)
(* place at or past maxCols, and the call never stops on an index out of   *)
(* range.                                                                  *)
C30_CellIndexInRange ==
    /\ pc # "panic"
    /\ (pc = "rows" /\ ri <= Len(CurSheet.Rows)) =>
           \A x \in DOMAIN CurSheet.Rows[ri].Cells :
               (/\ ~CurSheet.Rows[ri].Cells[x].ColumnErr
                /\ <<CurSheet.Rows[ri].RowNumber - 1,
                     ColumnToIndex(CurSheet.Rows[ri].Cells[x].Column)>> \notin skipCells)
               => ColumnToIndex(CurSheet.Rows[ri].Cells[x].Column) < maxCols

(* The merge declarations of a sheet whose end corner is above or to the   *)
(* left of the start corner.                                               *)
ReversedRefs(sheet) ==
    {mc \in GoodRefs(sheet) : mc.to.RowIdx < mc.from.RowIdx \/ mc.to.ColumnIdx < mc.from.ColumnIdx}

(* The cells of the IR have spans of at least 1, and spans of 1 when no    *)
(* merge declaration of the sheet starts at the cell.                      *)
SpansAtLeastOne ==
    \A i \in DOMAIN model : \A r \in DOMAIN model[i].Rows :
        \A c \in DOMAIN model[i].Rows[r].Cells :
            LET p == model[i].Rows[r].Cells[c] IN
            ~IsNil(p) =>
                /\ Deref(p).RowSpan >= 1
                /\ Deref(p).ColSpan >= 1
                /\ (\A mc \in GoodRefs(wb.Sheets[i]) : MasterOf(mc) # <<r - 1, c - 1>>)
                   => (Deref(p).RowSpan = 1 /\ Deref(p).ColSpan = 1)

(* C28.  Every cell of the IR has RowSpan >= 1 and ColSpan >= 1, for any   *)
(* merge declarations, also those whose end corner lies above or to the    *)
(* left of the start corner; an unmerged cell has RowSpan = ColSpan = 1.   *)
C28_SpansPositive == Parsed => SpansAtLeastOne

(* The same for the sheets without such a declaration. *)
SpansPositiveForward ==
    (Parsed /\ \A i \in DOMAIN wb.Sheets : ReversedRefs(wb.Sheets[i]) = {}) => SpansAtLeastOne

(* A stored color is unset or exactly six hexadecimal digits. *)
UnsetOrSixHex(c) == c = EmptyStr \/ (Len(c) = 6 /\ \A i \in DOMAIN c : c[i] \in HexDigits)

(* C29.  Every color stored in a resolved CellStyle or rich-text run       *)
(* (font, background, border), from a direct RGB attribute of any length   *)
(* or from a theme palette slot, is unset or exactly six hexadecimal       *)
(* digits.                                                                 *)
C29_ColorsSixHex ==
    Parsed =>
        \A i \in DOMAIN model : \A r \in DOMAIN model[i].Rows :
            \A c \in DOMAIN model[i].Rows[r].Cells :
                LET p == model[i].Rows[r].Cells[c] IN
                ~IsNil(p) =>
                    /\ UnsetOrSixHex(Deref(p).Style.FontColor)
                    /\ UnsetOrSixHex(Deref(p).Style.BackgroundColor)
                    /\ UnsetOrSixHex(Deref(p).Style.BorderColor)
                    /\ \A j \in DOMAIN Deref(p).Runs : UnsetOrSixHex(Deref(p).Runs[j].FontColor)

=============================================================================
